---- MODULE Spec2Model ----
(***************************************************************************)
(* A model of the TextLib RL system: the intelligent cache                 *)
(* (IntelligentCache), the dynamic adaptation engine                       *)
(* (DynamicAdaptationEngine), the insight logger (InsightLogger and        *)
(* MetricsDatabase), the episode runner (EnhancedRLSystem), the            *)
(* multi-objective optimizer, the Q-learning agent, the insight analyzer,  *)
(* the parameter optimizer, the action simulator, the log cleanup and the  *)
(* reward calculators.                                                     *)
(*                                                                         *)
(* The subsystems share no state in the code, so each has its own          *)
(* specification (CacheSpec, EngineSpec, LoggerSpec, EpisodeSpec and so    *)
(* on); a specification leaves the variables of the others unchanged.      *)
(*                                                                         *)
(* Time is the variable now, in whole seconds.  Scores that the code       *)
(* computes in float64 are compared here as exact rationals.               *)
(***************************************************************************)
EXTENDS Integers, Sequences, FiniteSets, TLC

VARIABLES
    now,             \* time.Now(), in seconds
    \* ---- IntelligentCache ----
    maxSize,         \* ic.maxSize
    cache,           \* ic.cache: key -> CacheEntry
    metadata,        \* ic.metadata: key -> CacheMetadata
    accessPatterns,  \* ic.accessPatterns: key -> sequence of access times
    hits,            \* ic.hits
    misses,          \* ic.misses
    evictions,       \* ic.evictions
    icReaders,       \* goroutines holding ic.mutex in shared mode
    getPc,           \* position of each caller inside Get
    getLocal,        \* Get's local variables key and entry, per caller
    ret,             \* what the last completed Get returned
    sets,            \* number of Set calls so far
    lastSet,         \* per key: the arguments of the last Set, and whether
                     \* its entry has since been picked by an eviction
    \* ---- DynamicAdaptationEngine ----
    performanceMonitor,  \* dae.performanceMonitor: metrics and indicators
    resourceMonitor,     \* dae.resourceMonitor: cpuUsage, memoryUsage
    adaptationHistory,   \* dae.adaptationHistory
    activeStrategy,      \* dae.activeStrategy
    strategyPerformance, \* dae.strategyPerformance: name -> StrategyMetrics
    lastAdaptation,      \* dae.lastAdaptation
    daeReaders,          \* goroutines holding dae.mutex in shared mode
    daeWriter,           \* the goroutine holding dae.mutex exclusively
    daeWaiting,          \* goroutines blocked in dae.mutex.Lock()
    monitorPc,           \* position of the monitoring loop
    monitorRecent,       \* updatePerformanceIndicators' local recentMetrics
    adaptPc,             \* position of the adaptation loop
    adaptChosen,         \* evaluateAdaptationNeeds' local bestStrategy
    heldSince,           \* per strategy and condition: since when it has held
    activations,         \* number of ActivateStrategy calls so far
    activateRet,         \* the last ActivateStrategy call: its name and result
    \* ---- InsightLogger and MetricsDatabase ----
    active,          \* il.active
    doneClosed,      \* whether the channel il.done has been closed
    EventStream,     \* il.EventStream: the buffered channel's contents
    batch,           \* il.batch
    events,          \* il.MetricsDB.events
    files,           \* the events files in LogPath: Unix second -> contents
    ilMu,            \* the goroutines holding il.mu (at most one)
    mdReaders,       \* goroutines holding MetricsDB.mu in shared mode
    sinkPc,          \* position of each processEvents goroutine
    sinkEvent,       \* the event each processEvents goroutine received
    started,         \* number of processEvents goroutines started so far
    panicked,        \* whether a goroutine has panicked
    logged,          \* number of LogEvent calls so far
    producerPc,      \* position of the producer inside LogEvent
    queryPc,         \* position of each reader of the MetricsDatabase
    queryResult,     \* what each reader's last query returned
    acceptedAtStop,  \* the events accepted by LogEvent before the last Stop
    offered,         \* number of LogEvent calls that found the logger active
    dropped,         \* the events LogEvent's default case has discarded
    \* ---- EnhancedRLSystem: runEpisodeWithLogging ----
    Config,          \* system.Config
    episode,         \* TrainWithLogging's loop variable
    episodePc,       \* position of runEpisodeWithLogging
    step,            \* runEpisodeWithLogging's loop variable
    state,           \* runEpisodeWithLogging's local state
    nextState,       \* runEpisodeWithLogging's local nextState
    CurrentResults,  \* the map state.CurrentResults, shared by state and nextState
    action,          \* runEpisodeWithLogging's local action
    \* ---- MultiObjectiveOptimizer: Optimize ----
    population,          \* Optimize's local population
    dominationCount,     \* nonDominatedSort's local dominationCount
    dominatedSolutions,  \* nonDominatedSort's local dominatedSolutions
    firstFront,          \* nonDominatedSort's local firstFront (indices)
    fronts,              \* nonDominatedSort's result
    frontIndex,          \* nonDominatedSort's local frontIndex
    paretoFront,         \* moo.paretoFront
    newPopulation,       \* createNextGeneration's local newPopulation
    generation,          \* Optimize's loop variable
    optimizePc           \* position of Optimize

\* The caller of TrainWithLogging has asked it to stop.
VARIABLES cancelRequested

cacheVars == <<maxSize, cache, metadata, accessPatterns, hits, misses,
               evictions, icReaders, getPc, getLocal, ret, sets, lastSet>>

engineVars == <<performanceMonitor, resourceMonitor, adaptationHistory,
                activeStrategy, strategyPerformance, lastAdaptation,
                daeReaders, daeWriter, daeWaiting, monitorPc, monitorRecent,
                adaptPc, adaptChosen, heldSince,
                activations, activateRet>>

loggerVars == <<active, doneClosed, EventStream, batch, events, files, ilMu,
                mdReaders, sinkPc, sinkEvent, started, panicked, logged,
                producerPc, queryPc, queryResult, acceptedAtStop,
                offered, dropped>>

episodeVars == <<Config, episode, episodePc, step, state, nextState,
                 CurrentResults, action, cancelRequested>>

optimizerVars == <<population, dominationCount, dominatedSolutions, firstFront,
                   fronts, frontIndex, paretoFront, newPopulation, generation,
                   optimizePc>>

\* The QLearningAgent: its Q-table and exploration fields, the constructor's
\* explorationRate argument, and the number of UpdateQValue calls made.
VARIABLES QTable, ExplorationRate, MinExploration, DecayRate, explorationRate,
          updates, agentPc,
          observed     \* the keys of the states the episodes have observed

agentVars == <<QTable, ExplorationRate, MinExploration, DecayRate,
               explorationRate, updates, agentPc, observed>>

\* The InsightAnalyzer's view of the MetricsDatabase: the episode store
\* md.episodes, and the reports GenerateInsights has returned so far.
VARIABLES episodes, reports

analyzerVars == <<episodes, reports>>

\* The ParameterOptimizer (po) and the call of OptimizeParameters in
\* progress.
VARIABLES
    bestParameters,      \* po.bestParameters: function name -> individual
    parameterHistory,    \* po.parameterHistory: function name -> records
    poFunctionName,      \* OptimizeParameters' argument functionName
    poPopulation,        \* OptimizeParameters' local population
    poGeneration,        \* OptimizeParameters' loop variable generation
    poResult,            \* what the last completed OptimizeParameters returned
    poCalls,             \* OptimizeParameters calls begun
    poPc,                \* position of OptimizeParameters
    rand                 \* the state of math/rand's source

paramVars == <<bestParameters, parameterHistory, poFunctionName, poPopulation,
               poGeneration, poResult, poCalls, poPc, rand>>

\* The ActionSimulator: the position of the ExecuteAction call, the function
\* it was called for, the value of time.Now().UnixNano() % 1000 that
\* simulateSuccess read, and the result returned.
VARIABLES simPc, simFunction, simNano, simResult

simVars == <<simPc, simFunction, simNano, simResult>>

\* The log directory and the AutoCleanup calls made on it.
VARIABLES
    logDir,          \* the .json files in the log directory
    written,         \* files written so far
    dirClock,        \* the modification time of the file written last
    cleanups,        \* AutoCleanup calls made
    lastCleanup      \* the arguments of the last AutoCleanup call

cleanupVars == <<logDir, written, dirClock, cleanups, lastCleanup>>

\* The reward calculators: the position of the step that computes a reward,
\* the state, action and example of the step, the result of the action, and
\* the rewards the two calculators return for them.
VARIABLES rewardPc, rewardArgs, rewardResult, basicReward, enhancedReward

rewardVars == <<rewardPc, rewardArgs, rewardResult, basicReward, enhancedReward>>

vars == <<now, cacheVars, engineVars, loggerVars, episodeVars, optimizerVars,
          agentVars, analyzerVars, paramVars,
          simVars,
          cleanupVars,
          rewardVars>>

(***************************************************************************)
(* Bounds of the model.                                                    *)
(***************************************************************************)
MaxTime == 2          \* the clock stops after this many seconds
MaxCacheSize == 2     \* configured max_size ranges over 1..MaxCacheSize
MaxGets == 2          \* Get calls in one behaviour
MaxSets == 3          \* Set calls in one behaviour
MaxEngineTicks == 3   \* the engine's clock stops after this many ticks
MaxSnapshots == 2     \* snapshots collected in one behaviour
MaxActivations == 2   \* ActivateStrategy calls in one behaviour
MaxLogged == 3        \* LogEvent calls in one behaviour
MaxStarts == 2        \* Start calls that start a sink in one behaviour
MaxLoggerTime == 1    \* the logger's clock stops after this many seconds
MaxEpisodes == 2      \* Config.MaxEpisodes
populationSize == 3   \* moo.populationSize
generations == 2      \* moo.generations
MaxUpdates == 3       \* UpdateQValue calls in one behaviour
MaxReports == 2       \* GenerateInsights calls in one behaviour
poGenerations == 2    \* po.generations
poPopulationSize == 10
MaxCalls == 2         \* OptimizeParameters calls in one behaviour
MaxLogFiles == 4      \* log files written in one behaviour
MaxCleanups == 1      \* AutoCleanup calls in one behaviour

(***************************************************************************)
(* DynamicAdaptationEngine                                                 *)
(***************************************************************************)
None == "none"

otherThanCache == <<engineVars, loggerVars, episodeVars, optimizerVars, agentVars,
    analyzerVars, paramVars,
    simVars,
    cleanupVars,
    rewardVars>>
otherThanEngine == <<cacheVars, loggerVars, episodeVars, optimizerVars, agentVars,
    analyzerVars, paramVars,
    simVars,
    cleanupVars,
    rewardVars>>
otherThanLogger == <<cacheVars, engineVars, episodeVars, optimizerVars, agentVars,
    analyzerVars, paramVars,
    simVars,
    cleanupVars,
    rewardVars>>
otherThanEpisode == <<now, cacheVars, engineVars, loggerVars, optimizerVars, agentVars,
    analyzerVars, paramVars,
    simVars,
    cleanupVars,
    rewardVars>>
otherThanOptimizer == <<now, cacheVars, engineVars, loggerVars, episodeVars, agentVars,
    analyzerVars, paramVars,
    simVars,
    cleanupVars,
    rewardVars>>
otherThanAgent == <<now, cacheVars, engineVars, loggerVars, episodeVars, optimizerVars,
    analyzerVars, paramVars,
    simVars,
    cleanupVars,
    rewardVars>>
otherThanAnalyzer == <<now, cacheVars, engineVars, loggerVars, episodeVars,
    optimizerVars, agentVars, paramVars,
    simVars,
    cleanupVars,
    rewardVars>>
otherThanParams == <<now, cacheVars, engineVars, loggerVars, episodeVars,
    optimizerVars, agentVars, analyzerVars,
    simVars,
    cleanupVars,
    rewardVars>>
otherThanSimulator == <<now, cacheVars, engineVars, loggerVars, episodeVars, optimizerVars, agentVars, analyzerVars, paramVars,
    cleanupVars,
    rewardVars>>
otherThanCleanup == <<now, cacheVars, engineVars, loggerVars, episodeVars, optimizerVars, agentVars, analyzerVars, paramVars, simVars,
    rewardVars>>
otherThanReward == <<now, cacheVars, engineVars, loggerVars, episodeVars, optimizerVars, agentVars, analyzerVars, paramVars, simVars, cleanupVars>>

(***************************************************************************)
(* IntelligentCache                                                        *)
(***************************************************************************)
Callers == {"c1", "c2"}

Functions == {"f", "g"}
Texts == {"t"}
ParamsJSON == {"null"}

\* The (value, computeCost) pairs passed to Set; the cost is in seconds.
SetInputs == {[value |-> 7, computeCost |-> 1],
              [value |-> 42, computeCost |-> 40000]}

\* ic.ttl, in seconds: the caller's choice in NewIntelligentCache.
ttl == 1

NoEntry == [Absent |-> TRUE]
NoRet == [Called |-> FALSE]
NoSet == [Set |-> FALSE]

\* hashText: a text of at most 100 bytes is its own digest; Texts holds
\* only such texts.
hashText(text) == text

\* generateCacheKey: "function:textHash:paramsJSON".  The three parts are
\* kept as a tuple; no part contains the separator.
generateCacheKey(functionName, text, params) ==
    <<functionName, hashText(text), params>>

Keys == {generateCacheKey(f, t, p) : f \in Functions, t \in Texts, p \in ParamsJSON}

\* len(json.Marshal(value)) for a non-negative integer: its decimal digits.
RECURSIVE JSONLen(_)
JSONLen(value) == IF value < 10 THEN 1 ELSE 1 + JSONLen(value \div 10)

estimateMemorySize(value) == JSONLen(value) * 2

HourSeconds == 3600

\* predictAccessProbability, in tenths: the history is looked up under
\* "function:textHash", a key without the parameters part.
predictAccessProbability(functionName, textHash) ==
    LET k == <<functionName, textHash>> IN
    IF k \notin DOMAIN accessPatterns \/ Len(accessPatterns[k]) = 0
    THEN 1
    ELSE LET patterns == accessPatterns[k]
             recentAccesses ==
                 Cardinality({i \in 1..Len(patterns) : now - patterns[i] < HourSeconds})
         IN IF recentAccesses > 10 THEN 10 ELSE recentAccesses

\* calculateEvictionScore as the rational
\*   (ScoreNum * 1048576) / (10 * ScoreDen):
\* accessFrequency = AccessCount / (age + 1), memoryCostMB = MemorySize / 2^20.
ScoreNum(entry, meta) ==
    entry.AccessCount * entry.ComputeCost
        * predictAccessProbability(meta.FunctionName, meta.TextHash)

ScoreDen(entry) ==
    ((now - entry.Timestamp) + 1) * entry.MemorySize * ((now - entry.LastAccess) + 1)

calculateEvictionScoreLess(k1, k2) ==
    ScoreNum(cache[k1], metadata[k1]) * ScoreDen(cache[k2])
        < ScoreNum(cache[k2], metadata[k2]) * ScoreDen(cache[k1])

\* score < minScore for the initial minScore = 1e9:
\*   N * 2^20 / (10 * D) < 10^9  <=>  N * 2^10 < 5^10 * D.
SentinelScaled == 9765625

BelowInitialMinScore(k) ==
    (ScoreNum(cache[k], metadata[k]) * 1024) \div ScoreDen(cache[k]) < SentinelScaled

\* intelligentEviction: the keys the two loops can end on.  The maps are
\* ranged over in an arbitrary order, so among several entries of minimal
\* score any one can be picked; an entry is picked only if its score is
\* below the initial minScore.
EvictionCandidates ==
    {k \in DOMAIN cache :
        /\ BelowInitialMinScore(k)
        /\ \A j \in DOMAIN cache : ~calculateEvictionScoreLess(j, k)}

Remove(f, k) == [j \in (DOMAIN f) \ {k} |-> f[j]]
Put(f, k, v) == [j \in (DOMAIN f) \cup {k} |-> IF j = k THEN v ELSE f[j]]

\* recordAccess: append the access time, keep the last 100.
PatternHistory == 100

recordAccess(key) ==
    LET old == IF key \in DOMAIN accessPatterns THEN accessPatterns[key] ELSE <<>>
        new == Append(old, now)
    IN Put(accessPatterns, key,
           IF Len(new) > PatternHistory THEN Tail(new) ELSE new)

TotalAccesses ==
    LET RECURSIVE Sum(_)
        Sum(S) == IF S = {} THEN 0
                  ELSE LET k == CHOOSE x \in S : TRUE
                       IN Len(accessPatterns[k]) + Sum(S \ {k})
    IN Sum(DOMAIN accessPatterns)

\* Get, lines 103-122: take the lock in shared mode, record the access and
\* look the entry up.  A miss returns at once; a hit goes on to GetHit.
ExpiredInverted(entry) == now - entry.Timestamp < ttl

ExpiredNever(entry) == FALSE

Expired(entry) == now - entry.Timestamp > ttl

GetLookup(c, functionName, text, params) ==
    LET key == generateCacheKey(functionName, text, params) IN
    /\ getPc[c] = "idle"
    /\ TotalAccesses < MaxGets
    /\ accessPatterns' = recordAccess(key)
    /\ IF key \notin DOMAIN cache \/ Expired(cache[key])
       THEN /\ misses' = misses + 1
            /\ ret' = [Called |-> TRUE, Key |-> key, Found |-> FALSE]
            /\ UNCHANGED <<icReaders, getPc, getLocal>>
       ELSE /\ icReaders' = icReaders \cup {c}
            /\ getPc' = [getPc EXCEPT ![c] = "hit"]
            /\ getLocal' = [getLocal EXCEPT ![c] = [key |-> key, entry |-> cache[key]]]
            /\ UNCHANGED <<misses, ret>>
    /\ UNCHANGED <<now, maxSize, cache, metadata, hits, evictions, sets, lastSet>>
    /\ UNCHANGED otherThanCache

\* Get, lines 124-130: write the updated copy of the entry back, count the
\* hit, return the value and release the lock.
GetHit(c) ==
    /\ getPc[c] = "hit"
    /\ LET key == getLocal[c].key
           entry == [getLocal[c].entry EXCEPT !.AccessCount = @ + 1,
                                              !.LastAccess = now]
       IN /\ cache' = Put(cache, key, entry)
          /\ ret' = [Called |-> TRUE, Key |-> key, Found |-> TRUE,
                     Value |-> entry.Value]
    /\ hits' = hits + 1
    /\ icReaders' = icReaders \ {c}
    /\ getPc' = [getPc EXCEPT ![c] = "idle"]
    /\ getLocal' = [getLocal EXCEPT ![c] = NoEntry]
    /\ UNCHANGED <<now, maxSize, metadata, accessPatterns, misses, evictions,
                   sets, lastSet>>
    /\ UNCHANGED otherThanCache

\* Set, under the exclusive lock: evict if the cache is full, then store the
\* entry and its metadata.
Set(functionName, text, params, value, computeCost) ==
    LET key == generateCacheKey(functionName, text, params)
        full == Cardinality(DOMAIN cache) >= maxSize
        victims == IF full THEN EvictionCandidates ELSE {}
        entry == [Key |-> key, Value |-> value, Timestamp |-> now,
                  AccessCount |-> 1, LastAccess |-> now,
                  ComputeCost |-> computeCost,
                  MemorySize |-> estimateMemorySize(value)]
        meta == [FunctionName |-> functionName, Parameters |-> params,
                 TextHash |-> hashText(text), CreationTime |-> now, HitCount |-> 0]
    IN
    /\ icReaders = {}
    /\ sets < MaxSets
    /\ sets' = sets + 1
    /\ \E victim \in IF victims = {} THEN {"none"} ELSE victims :
          LET kept == IF victim = "none" THEN cache ELSE Remove(cache, victim)
              keptMeta == IF victim = "none" THEN metadata ELSE Remove(metadata, victim)
          IN /\ cache' = Put(kept, key, entry)
             /\ metadata' = Put(keptMeta, key, meta)
             /\ evictions' = IF victim = "none" THEN evictions ELSE evictions + 1
             /\ lastSet' = [k \in Keys |->
                   IF k = key THEN [Set |-> TRUE, At |-> now, Value |-> value,
                                    Evicted |-> FALSE]
                   ELSE IF k = victim /\ lastSet[k].Set
                        THEN [lastSet[k] EXCEPT !.Evicted = TRUE]
                        ELSE lastSet[k]]
    /\ UNCHANGED <<now, maxSize, accessPatterns, hits, misses, icReaders, getPc,
                   getLocal, ret>>
    /\ UNCHANGED otherThanCache

\* CleanExpired, under the exclusive lock.
CleanExpired ==
    /\ icReaders = {}
    /\ LET expired == {k \in DOMAIN cache : now - cache[k].Timestamp > ttl}
       IN /\ expired # {}
          /\ cache' = [k \in (DOMAIN cache) \ expired |-> cache[k]]
          /\ metadata' = [k \in (DOMAIN metadata) \ expired |-> metadata[k]]
    /\ UNCHANGED <<now, maxSize, accessPatterns, hits, misses, evictions,
                   icReaders, getPc, getLocal, ret, sets, lastSet>>
    /\ UNCHANGED otherThanCache

CacheGet ==
    \E c \in Callers, f \in Functions, t \in Texts, p \in ParamsJSON :
        GetLookup(c, f, t, p)

CacheGetHit == \E c \in Callers : GetHit(c)

CacheSet ==
    \E f \in Functions, t \in Texts, p \in ParamsJSON, in \in SetInputs :
        Set(f, t, p, in.value, in.computeCost)

CacheTick ==
    /\ now < MaxTime
    /\ now' = now + 1
    /\ UNCHANGED cacheVars
    /\ UNCHANGED otherThanCache

\* NewIntelligentCache(maxSize, ttl), for a positive maxSize.
CacheInit ==
    /\ maxSize \in 1..MaxCacheSize
    /\ cache = <<>>
    /\ metadata = <<>>
    /\ accessPatterns = <<>>
    /\ hits = 0
    /\ misses = 0
    /\ evictions = 0
    /\ icReaders = {}
    /\ getPc = [c \in Callers |-> "idle"]
    /\ getLocal = [c \in Callers |-> NoEntry]
    /\ ret = NoRet
    /\ sets = 0
    /\ lastSet = [k \in Keys |-> NoSet]

(***************************************************************************)
(* InsightLogger and MetricsDatabase                                       *)
(***************************************************************************)
\* The capacity of il.EventStream (1000 in NewInsightLogger), scaled.
EventStreamCap == 2

\* il.BatchSize, the caller's choice in NewInsightLogger.
BatchSize == 2

Sinks == 1..MaxStarts
Readers == {"q1"}

SeqSet(seq) == {seq[i] : i \in 1..Len(seq)}

\* flushBatch: write a non-empty batch to events_<Unix second>.json,
\* replacing the file of that name, and empty the batch.
flushBatch(b) ==
    IF Len(b) = 0
    THEN [batch |-> b, files |-> files]
    ELSE [batch |-> <<>>,
          files |-> [t \in (DOMAIN files) \cup {now} |->
                        IF t = now THEN b ELSE files[t]]]

\* Start: under il.mu; refuse when active, else start a processEvents
\* goroutine.
Start ==
    /\ ~panicked
    /\ ilMu = {}
    /\ ~active
    /\ started < MaxStarts
    /\ active' = TRUE
    /\ started' = started + 1
    /\ sinkPc' = [sinkPc EXCEPT ![started + 1] = "select"]
    /\ UNCHANGED <<now, doneClosed, EventStream, batch, events, files, ilMu, mdReaders,
                   sinkEvent, panicked, logged, producerPc, queryPc, queryResult,
                   acceptedAtStop>>
    /\ UNCHANGED <<offered, dropped>>
    /\ UNCHANGED otherThanLogger

\* The events LogEvent has put into the buffer so far.
Accepted ==
    SeqSet(EventStream) \cup SeqSet(events)
        \cup {sinkEvent[i] : i \in {j \in Sinks : sinkPc[j] \in {"received", "appending"}}}

\* Stop: under il.mu; when active, clear the flag, close il.done (closing a
\* closed channel panics) and flush the batch.
Stop ==
    /\ ~panicked
    /\ ilMu = {}
    /\ active
    /\ active' = FALSE
    /\ IF doneClosed
       THEN /\ panicked' = TRUE
            /\ UNCHANGED <<doneClosed, batch, files, acceptedAtStop>>
       ELSE /\ doneClosed' = TRUE
            /\ batch' = flushBatch(batch).batch
            /\ files' = flushBatch(batch).files
            /\ acceptedAtStop' = Accepted
            /\ UNCHANGED panicked
    /\ UNCHANGED <<now, EventStream, events, ilMu, mdReaders, sinkPc, sinkEvent,
                   started, logged, producerPc, queryPc, queryResult>>
    /\ UNCHANGED <<offered, dropped>>
    /\ UNCHANGED otherThanLogger

\* LogEvent, line 79: read il.active, with no lock held.
LogEventCheck ==
    /\ ~panicked
    /\ producerPc = "idle"
    /\ logged < MaxLogged
    /\ logged' = logged + 1
    /\ producerPc' = IF active THEN "sending" ELSE "idle"
    /\ offered' = IF active THEN offered + 1 ELSE offered
    /\ UNCHANGED <<now, active, doneClosed, EventStream, batch, events, files, ilMu,
                   mdReaders, sinkPc, sinkEvent, started, panicked, queryPc,
                   queryResult, acceptedAtStop>>
    /\ UNCHANGED dropped
    /\ UNCHANGED otherThanLogger

\* The events of a step of runEpisodeWithLogging, in the order of its four
\* LogEvent calls.
EventTypes ==
    <<"state_observation", "action_selected", "reward_calculated", "q_value_updated">>

\* The event of the k-th LogEvent call that runEpisodeWithLogging makes in
\* an episode: four calls for step 0, four for step 1, and so on.
emitted(k) ==
    [id |-> k,
     EpisodeID |-> "ep0",
     StepNumber |-> (k - 1) \div Len(EventTypes),
     EventType |-> EventTypes[((k - 1) % Len(EventTypes)) + 1]]

\* A send that puts the event in the place of the oldest buffered one.
sendDropOldest(stream, event) ==
    IF Len(stream) < EventStreamCap
    THEN Append(stream, event)
    ELSE Append(Tail(stream), event)

\* select { case il.EventStream <- event: default: }: the channel after
\* the select, with the event at its end when there was room.
send(stream, event) ==
    IF Len(stream) < EventStreamCap
    THEN Append(stream, event)
    ELSE stream

\* The drops the logger has counted.  InsightLogger has no counter of drops
\* (part_005, lines 76-88) and LogEvent's default case only prints a
\* warning, so the count a caller can read stays 0.
DropsCounted == 0

\* LogEvent, lines 83-87: send without blocking; when the buffer is full
\* the default case prints a warning and the event is gone.
LogEventSend ==
    /\ ~panicked
    /\ producerPc = "sending"
    /\ EventStream' = send(EventStream, emitted(logged))
    /\ dropped' = IF Len(EventStream) < EventStreamCap
                  THEN dropped
                  ELSE dropped \cup {emitted(logged)}
    /\ producerPc' = "idle"
    /\ UNCHANGED <<now, active, doneClosed, batch, events, files, ilMu, mdReaders,
                   sinkPc, sinkEvent, started, panicked, logged, queryPc,
                   queryResult, acceptedAtStop>>
    /\ UNCHANGED offered
    /\ UNCHANGED otherThanLogger

\* processEvents, case event := <-il.EventStream.
SinkReceive(i) ==
    /\ ~panicked
    /\ sinkPc[i] = "select"
    /\ EventStream # <<>>
    /\ sinkEvent' = [sinkEvent EXCEPT ![i] = Head(EventStream)]
    /\ EventStream' = Tail(EventStream)
    /\ sinkPc' = [sinkPc EXCEPT ![i] = "received"]
    /\ UNCHANGED <<now, active, doneClosed, batch, events, files, ilMu, mdReaders,
                   started, panicked, logged, producerPc, queryPc, queryResult,
                   acceptedAtStop>>
    /\ UNCHANGED <<offered, dropped>>
    /\ UNCHANGED otherThanLogger

\* addEventToBatch, lines 140-143: take il.mu and append to the batch.
addEventToBatchLock(i) ==
    /\ ~panicked
    /\ sinkPc[i] = "received"
    /\ ilMu = {}
    /\ ilMu' = {i}
    /\ batch' = Append(batch, sinkEvent[i])
    /\ sinkPc' = [sinkPc EXCEPT ![i] = "appending"]
    /\ UNCHANGED <<now, active, doneClosed, EventStream, events, files, mdReaders,
                   sinkEvent, started, panicked, logged, producerPc, queryPc,
                   queryResult, acceptedAtStop>>
    /\ UNCHANGED <<offered, dropped>>
    /\ UNCHANGED otherThanLogger

\* addEventToBatch, lines 144-148: append to MetricsDB.events (holding il.mu,
\* not MetricsDB.mu), flush a full batch, release il.mu.
addEventToBatch(i) ==
    /\ ~panicked
    /\ sinkPc[i] = "appending"
    /\ events' = Append(events, sinkEvent[i])
    /\ LET flushed == IF Len(batch) >= BatchSize
                      THEN flushBatch(batch)
                      ELSE [batch |-> batch, files |-> files]
       IN /\ batch' = flushed.batch
          /\ files' = flushed.files
    /\ ilMu' = {}
    /\ sinkPc' = [sinkPc EXCEPT ![i] = "select"]
    /\ UNCHANGED <<now, active, doneClosed, EventStream, mdReaders, sinkEvent,
                   started, panicked, logged, producerPc, queryPc, queryResult,
                   acceptedAtStop>>
    /\ UNCHANGED <<offered, dropped>>
    /\ UNCHANGED otherThanLogger

\* processEvents, case <-ticker.C: flushBatch with no lock held.
SinkTickerFlush(i) ==
    /\ ~panicked
    /\ sinkPc[i] = "select"
    /\ batch # <<>>
    /\ batch' = flushBatch(batch).batch
    /\ files' = flushBatch(batch).files
    /\ UNCHANGED <<now, active, doneClosed, EventStream, events, ilMu, mdReaders,
                   sinkPc, sinkEvent, started, panicked, logged, producerPc, queryPc,
                   queryResult, acceptedAtStop>>
    /\ UNCHANGED <<offered, dropped>>
    /\ UNCHANGED otherThanLogger

\* processEvents, case <-il.done: return.  select takes any ready case, so
\* this one can be taken while il.EventStream still holds events.
SinkExit(i) ==
    /\ ~panicked
    /\ sinkPc[i] = "select"
    /\ doneClosed
    /\ sinkPc' = [sinkPc EXCEPT ![i] = "exited"]
    /\ UNCHANGED <<now, active, doneClosed, EventStream, batch, events, files, ilMu,
                   mdReaders, sinkEvent, started, panicked, logged, producerPc,
                   queryPc, queryResult, acceptedAtStop>>
    /\ UNCHANGED <<offered, dropped>>
    /\ UNCHANGED otherThanLogger

\* GetEvents, GetEventsByType, GetEventsByEpisode: take MetricsDB.mu in
\* shared mode and read md.events.  A read that overlaps the append of
\* addEventToBatch can see the list before the append, after it, or the
\* slice header half written.
QueryBegin(q) ==
    /\ ~panicked
    /\ queryPc[q] = "idle"
    /\ mdReaders' = mdReaders \cup {q}
    /\ queryPc' = [queryPc EXCEPT ![q] = "reading"]
    /\ UNCHANGED <<now, active, doneClosed, EventStream, batch, events, files, ilMu,
                   sinkPc, sinkEvent, started, panicked, logged, producerPc,
                   queryResult, acceptedAtStop>>
    /\ UNCHANGED <<offered, dropped>>
    /\ UNCHANGED otherThanLogger

QueryEnd(q) ==
    /\ ~panicked
    /\ queryPc[q] = "reading"
    /\ LET appending == {i \in Sinks : sinkPc[i] = "appending"}
       IN \E torn \in (IF appending = {} THEN {FALSE} ELSE BOOLEAN) :
             queryResult' = [queryResult EXCEPT ![q] =
                                [torn |-> torn, events |-> events]]
    /\ mdReaders' = mdReaders \ {q}
    /\ queryPc' = [queryPc EXCEPT ![q] = "idle"]
    /\ UNCHANGED <<now, active, doneClosed, EventStream, batch, events, files, ilMu,
                   sinkPc, sinkEvent, started, panicked, logged, producerPc,
                   acceptedAtStop>>
    /\ UNCHANGED <<offered, dropped>>
    /\ UNCHANGED otherThanLogger

LoggerTick ==
    /\ now < MaxLoggerTime
    /\ now' = now + 1
    /\ UNCHANGED loggerVars
    /\ UNCHANGED otherThanLogger

\* NewInsightLogger and NewMetricsDatabase
LoggerInit ==
    /\ active = FALSE
    /\ doneClosed = FALSE
    /\ EventStream = <<>>
    /\ batch = <<>>
    /\ events = <<>>
    /\ files = <<>>
    /\ ilMu = {}
    /\ mdReaders = {}
    /\ sinkPc = [i \in Sinks |-> "unborn"]
    /\ sinkEvent = [i \in Sinks |-> None]
    /\ started = 0
    /\ panicked = FALSE
    /\ logged = 0
    /\ producerPc = "idle"
    /\ queryPc = [q \in Readers |-> "idle"]
    /\ queryResult = [q \in Readers |-> None]
    /\ acceptedAtStop = {}
    /\ offered = 0
    /\ dropped = {}

processEventsReceive == \E i \in Sinks : SinkReceive(i)
processEventsLock == \E i \in Sinks : addEventToBatchLock(i)
processEventsAppend == \E i \in Sinks : addEventToBatch(i)
processEventsTicker == \E i \in Sinks : SinkTickerFlush(i)
processEventsDone == \E i \in Sinks : SinkExit(i)
GetEventsBegin == \E q \in Readers : QueryBegin(q)
GetEvents == \E q \in Readers : QueryEnd(q)

LoggerNext ==
    \/ Start
    \/ Stop
    \/ LogEventCheck
    \/ LogEventSend
    \/ processEventsReceive
    \/ processEventsLock
    \/ processEventsAppend
    \/ processEventsTicker
    \/ processEventsDone
    \/ GetEventsBegin
    \/ GetEvents
    \/ LoggerTick

(***************************************************************************)
(* EnhancedRLSystem: episodes                                              *)
(***************************************************************************)
\* The agent's action catalogue: function name and cost.
getAvailableActions ==
    { [FunctionName |-> "extract_entities", Cost |-> 5],
      [FunctionName |-> "analyze_readability", Cost |-> 3],
      [FunctionName |-> "detect_code", Cost |-> 2],
      [FunctionName |-> "extract_keywords", Cost |-> 4],
      [FunctionName |-> "sentiment_analysis", Cost |-> 3],
      [FunctionName |-> "summarize_text", Cost |-> 8],
      [FunctionName |-> "format_text", Cost |-> 2],
      [FunctionName |-> "validate_output", Cost |-> 1] }

\* A selection that can also return the no_op action of an empty catalogue.
SelectActionOrNoOp ==
    {a \in getAvailableActions : a.FunctionName \in {"validate_output", "summarize_text"}}
        \cup {[FunctionName |-> "no_op", Cost |-> 0]}

\* SelectActionWithMetrics explores with probability ExplorationRate, which
\* UpdateQValue never lets fall below MinExploration, so every action of the
\* catalogue can be selected at every step.  The cheapest and the dearest
\* action are explored.
SelectActionWithMetrics ==
    {a \in getAvailableActions : a.FunctionName \in {"validate_output", "summarize_text"}}

\* The values of Config.MaxStepsPerEpisode explored.
StepConfigs == {3, 10, 12}

InitialBudget == 50
CompleteAfter == 10

createInitialState ==
    [StepCount |-> 0, RemainingBudget |-> InitialBudget, ActionsUsed |-> <<>>]

updateStateFreeAction(s, a) ==
    [StepCount |-> s.StepCount + 1,
     RemainingBudget |-> s.RemainingBudget,
     ActionsUsed |-> Append(s.ActionsUsed, a.FunctionName)]

updateState(s, a) ==
    [StepCount |-> s.StepCount + 1,
     RemainingBudget |-> s.RemainingBudget - a.Cost,
     ActionsUsed |-> Append(s.ActionsUsed, a.FunctionName)]

isTaskComplete(s) ==
    s.RemainingBudget <= 0 \/ Len(s.ActionsUsed) >= CompleteAfter

NoAction == [FunctionName |-> None, Cost |-> 0]

\* NewEnhancedRLSystem(config): the caller's configuration.
NewEnhancedRLSystem ==
    /\ episodePc = "unconstructed"
    /\ Config' \in [MaxStepsPerEpisode : StepConfigs]
    /\ episodePc' = "idle"
    /\ UNCHANGED <<episode, step, state, nextState, CurrentResults, action>>
    /\ UNCHANGED cancelRequested
    /\ UNCHANGED otherThanEpisode

\* TrainWithLogging's loop calling runEpisodeWithLogging, up to its for
\* statement: a fresh state and a fresh CurrentResults map.
runEpisodeBegin ==
    /\ episodePc \in {"idle", "returned"}
    /\ episode < MaxEpisodes
    /\ episode' = episode + 1
    /\ state' = createInitialState
    /\ nextState' = createInitialState
    /\ CurrentResults' = {}
    /\ action' = NoAction
    /\ step' = 0
    /\ episodePc' = IF 0 < Config.MaxStepsPerEpisode THEN "running" ELSE "returned"
    /\ UNCHANGED <<Config, cancelRequested>>
    /\ UNCHANGED otherThanEpisode

\* One iteration of runEpisodeWithLogging's loop: select an action, simulate
\* it, update the state, break when the task is complete, else go on while
\* step < Config.MaxStepsPerEpisode.
runEpisodeWithLogging ==
    /\ episodePc = "running"
    /\ \E a \in SelectActionWithMetrics, success \in BOOLEAN :
          LET ns == updateState(state, a)
          IN /\ action' = a
             /\ nextState' = ns
             /\ CurrentResults' = IF success
                                  THEN CurrentResults \cup {a.FunctionName}
                                  ELSE CurrentResults
             /\ IF isTaskComplete(ns)
                THEN /\ episodePc' = "returned"
                     /\ UNCHANGED <<state, step>>
                ELSE /\ state' = ns
                     /\ step' = step + 1
                     /\ episodePc' = IF step + 1 < Config.MaxStepsPerEpisode
                                     THEN "running"
                                     ELSE "returned"
    /\ UNCHANGED <<Config, episode, cancelRequested>>
    /\ UNCHANGED otherThanEpisode

\* The caller asks the running training to stop.  TrainWithLogging takes no
\* context, channel or flag and reads none in its loop, and main installs no
\* signal handler: the request changes nothing the runner looks at.
RequestCancellation ==
    /\ episodePc \in {"running", "returned"}
    /\ ~cancelRequested
    /\ cancelRequested' = TRUE
    /\ UNCHANGED <<Config, episode, episodePc, step, state, nextState,
                   CurrentResults, action>>
    /\ UNCHANGED otherThanEpisode

EpisodeInit ==
    /\ Config = [MaxStepsPerEpisode |-> 0]
    /\ episode = 0
    /\ episodePc = "unconstructed"
    /\ step = 0
    /\ state = createInitialState
    /\ nextState = createInitialState
    /\ CurrentResults = {}
    /\ action = NoAction
    /\ cancelRequested = FALSE

EpisodeNext ==
    \/ NewEnhancedRLSystem
    \/ runEpisodeBegin
    \/ runEpisodeWithLogging
    \/ RequestCancellation

(***************************************************************************)
(* MultiObjectiveOptimizer                                                 *)
(***************************************************************************)
\* SetupTextLibObjectives: execution_time, accuracy, memory_usage, cost.
objectives == <<"minimize", "maximize", "minimize", "minimize">>

\* The objective vectors evaluateFunction returns: one that dominates all
\* the others, one that all the others dominate, and two in between that do
\* not dominate each other.
ObjectiveVectors ==
    { <<1, 2, 1, 1>>, <<1, 1, 1, 1>>, <<2, 2, 1, 1>>, <<2, 1, 2, 2>> }

\* dominates: sol1 is no worse than sol2 in every objective and better in
\* at least one.
dominatesAllMinimized(sol1, sol2) ==
    /\ \A i \in 1..Len(objectives) : ~(sol1.Objectives[i] > sol2.Objectives[i])
    /\ \E i \in 1..Len(objectives) : sol1.Objectives[i] < sol2.Objectives[i]

dominates(sol1, sol2) ==
    /\ \A i \in 1..Len(objectives) :
          IF objectives[i] = "minimize"
          THEN ~(sol1.Objectives[i] > sol2.Objectives[i])
          ELSE ~(sol1.Objectives[i] < sol2.Objectives[i])
    /\ \E i \in 1..Len(objectives) :
          IF objectives[i] = "minimize"
          THEN sol1.Objectives[i] < sol2.Objectives[i]
          ELSE sol1.Objectives[i] > sol2.Objectives[i]

generateRandomActions ==
    <<"ExtractNamedEntities", "CalculateTextStatistics", "SplitIntoSentences">>

generateRandomParameters ==
    [max_parallel |-> 7, timeout_ms |-> 5000, enable_caching |-> TRUE,
     cache_size |-> 1000]

\* initializePopulation: populationSize solutions, not yet evaluated.
initializePopulation ==
    [i \in 1..populationSize |->
        [Actions |-> generateRandomActions,
         Parameters |-> generateRandomParameters,
         Objectives |-> <<0, 0, 0, 0>>,
         Rank |-> 0, Crowding |-> 0, TotalTime |-> 0]]

\* The caller's evaluateFunction, as the callers in the repository write it:
\* the solution's actions and parameters with the measured objectives, the
\* first of which is the total time.
evaluateFunction(actions, parameters, measured) ==
    [Actions |-> actions, Parameters |-> parameters, Objectives |-> measured,
     Rank |-> 0, Crowding |-> 0, TotalTime |-> measured[1]]

\* Optimize, lines 134-139: evaluate every solution that has no objectives
\* or no total time yet.
OptimizeEvaluate ==
    /\ optimizePc = "evaluate"
    /\ \E measured \in [1..Len(population) -> ObjectiveVectors] :
          population' =
             [i \in 1..Len(population) |->
                 IF Len(population[i].Objectives) = 0 \/ population[i].TotalTime = 0
                 THEN evaluateFunction(population[i].Actions,
                                       population[i].Parameters, measured[i])
                 ELSE population[i]]
    /\ optimizePc' = "sort"
    /\ newPopulation' = <<>>
    /\ UNCHANGED <<dominationCount, dominatedSolutions, firstFront, fronts,
                   frontIndex, paretoFront, generation>>
    /\ UNCHANGED otherThanOptimizer

Indices(n) == [k \in 1..n |-> k]

\* population[idx] for each idx of a list of indices.
FrontOf(pop, indices) == [k \in 1..Len(indices) |-> pop[indices[k]]]

\* nonDominatedSort, lines 240-270: count for every solution the solutions
\* that dominate it, list the solutions it dominates, and make the first
\* front of the solutions nothing dominates, giving them rank 0.
nonDominatedSort ==
    LET n == Len(population)
        Dominated(i) ==
            LET Test(j) == j # i /\ dominates(population[i], population[j])
            IN SelectSeq(Indices(n), Test)
        Count(i) ==
            Cardinality({j \in 1..n : /\ j # i
                                      /\ ~dominates(population[i], population[j])
                                      /\ dominates(population[j], population[i])})
        InFirst(i) == Count(i) = 0
        ranked == [i \in 1..n |->
                     IF InFirst(i) THEN [population[i] EXCEPT !.Rank = 0]
                     ELSE population[i]]
        first == SelectSeq(Indices(n), InFirst)
    IN
    /\ optimizePc = "sort"
    /\ dominatedSolutions' = [i \in 1..n |-> Dominated(i)]
    /\ dominationCount' = [i \in 1..n |-> Count(i)]
    /\ population' = ranked
    /\ firstFront' = first
    /\ fronts' = IF Len(first) > 0 THEN <<FrontOf(ranked, first)>> ELSE <<>>
    /\ frontIndex' = 0
    /\ optimizePc' = "fronts"
    /\ UNCHANGED <<paretoFront, newPopulation, generation>>
    /\ UNCHANGED otherThanOptimizer

\* The solutions dominated by the solutions of the current front, in the
\* order the two nested loops of lines 276-277 visit them.
DominatedByFirstOnly(front) ==
    IF front = <<>> THEN <<>> ELSE dominatedSolutions[Head(front)]

RECURSIVE DominatedBy(_)
DominatedBy(front) ==
    IF front = <<>> THEN <<>>
    ELSE dominatedSolutions[Head(front)] \o DominatedBy(Tail(front))

\* Lines 278-282, for each visited solution q: take one from its count, and
\* when the count reaches zero give q the next rank and put it in nextFront.
RECURSIVE nextFrontOf(_, _, _, _)
nextFrontOf(visited, count, pop, nextFront) ==
    IF visited = <<>>
    THEN [dominationCount |-> count, population |-> pop, nextFront |-> nextFront]
    ELSE LET q == Head(visited)
             c == [count EXCEPT ![q] = @ - 1]
         IN IF c[q] = 0
            THEN nextFrontOf(Tail(visited), c,
                             [pop EXCEPT ![q].Rank = frontIndex + 1],
                             Append(nextFront, q))
            ELSE nextFrontOf(Tail(visited), c, pop, nextFront)

\* nonDominatedSort, lines 273-302: one iteration of the loop that makes the
\* next front from the current one; the loop ends when the next front is
\* empty.
nonDominatedSortNextFront ==
    LET iteration == nextFrontOf(DominatedBy(firstFront), dominationCount, population, <<>>)
    IN
    /\ optimizePc = "fronts"
    /\ Len(fronts[frontIndex + 1]) > 0
    /\ dominationCount' = iteration.dominationCount
    /\ population' = iteration.population
    /\ IF Len(iteration.nextFront) > 0
       THEN /\ fronts' = Append(fronts, FrontOf(iteration.population, iteration.nextFront))
            /\ firstFront' = iteration.nextFront
            /\ frontIndex' = frontIndex + 1
            /\ UNCHANGED optimizePc
       ELSE /\ optimizePc' = "sorted"
            /\ UNCHANGED <<fronts, firstFront, frontIndex>>
    /\ UNCHANGED <<dominatedSolutions, paretoFront, newPopulation, generation>>
    /\ UNCHANGED otherThanOptimizer

\* math.Inf(1), as a number above every sum of distances in the model.
Infinity == 1000000

\* The orders sort.Slice can leave a front in, where sortKey[i] is the value
\* the less function compares for front[i]: any order in which no solution
\* comes before one of a smaller value (sort.Slice is not stable).
SortedOrders(front, sortKey) ==
    LET n == Len(front)
    IN {[k \in 1..n |-> front[perm[k]]] :
           perm \in {f \in Permutations(1..n) :
                        \A i, j \in 1..n : i < j => ~(sortKey[f[j]] < sortKey[f[i]])}}

\* calculateCrowdingDistance, lines 351-372, for one objective: sort by it,
\* make the two boundary solutions infinitely distant and add to each other
\* solution the normalised distance between its neighbours.
crowdingForObjective(sorted, objIndex) ==
    LET n == Len(sorted)
        objRange == sorted[n].Objectives[objIndex] - sorted[1].Objectives[objIndex]
    IN [i \in 1..n |->
          IF i = 1 \/ i = n
          THEN [sorted[i] EXCEPT !.Crowding = Infinity]
          ELSE IF objRange > 0 /\ sorted[i].Crowding # Infinity
          THEN [sorted[i] EXCEPT !.Crowding =
                   @ + (sorted[i + 1].Objectives[objIndex]
                          - sorted[i - 1].Objectives[objIndex]) \div objRange]
          ELSE sorted[i]]

\* The loop over the objectives, lines 350-372: the contents the front can
\* have after the objectives from objIndex on, from each content in reached.
RECURSIVE crowdingFrom(_, _)
crowdingFrom(reached, objIndex) ==
    IF objIndex > Len(objectives)
    THEN reached
    ELSE LET ByObjective(front) ==
                 [i \in 1..Len(front) |-> front[i].Objectives[objIndex]]
         IN crowdingFrom(UNION {{crowdingForObjective(sorted, objIndex) :
                                    sorted \in SortedOrders(front, ByObjective(front))} :
                                front \in reached},
                         objIndex + 1)

\* calculateCrowdingDistance: the contents the front can have afterwards.
calculateCrowdingDistance(front) ==
    IF Len(front) <= 2
    THEN {[i \in 1..Len(front) |-> [front[i] EXCEPT !.Crowding = Infinity]]}
    ELSE crowdingFrom({[i \in 1..Len(front) |-> [front[i] EXCEPT !.Crowding = 0]]}, 1)

\* Optimize, lines 144-147: calculateCrowdingDistance on every front in turn.
RECURSIVE crowdedFronts(_)
crowdedFronts(rest) ==
    IF rest = <<>>
    THEN {<<>>}
    ELSE {<<crowded>> \o others :
             crowded \in calculateCrowdingDistance(Head(rest)),
             others \in crowdedFronts(Tail(rest))}

\* Optimize, lines 144-155: the crowding distance of every front, in place,
\* and the first front copied to moo.paretoFront.
OptimizeParetoFront ==
    /\ optimizePc = "sorted"
    /\ \E crowded \in crowdedFronts(fronts) :
          /\ fronts' = crowded
          /\ paretoFront' = IF Len(crowded) > 0 THEN crowded[1] ELSE paretoFront
    /\ optimizePc' = "next"
    /\ UNCHANGED <<population, dominationCount, dominatedSolutions, firstFront,
                   frontIndex, newPopulation, generation>>
    /\ UNCHANGED otherThanOptimizer

\* createNextGeneration, lines 378-392: append whole fronts while they fit,
\* then the most distant solutions of the front that does not.
RECURSIVE addFronts(_, _)
addFronts(newPop, rest) ==
    IF rest = <<>>
    THEN {newPop}
    ELSE IF Len(newPop) + Len(Head(rest)) <= populationSize
    THEN addFronts(newPop \o Head(rest), Tail(rest))
    ELSE LET byCrowdingDescending ==
                 [i \in 1..Len(Head(rest)) |-> -Head(rest)[i].Crowding]
         IN {newPop \o SubSeq(sorted, 1, populationSize - Len(newPop)) :
                sorted \in SortedOrders(Head(rest), byCrowdingDescending)}

compare(sol1, sol2) ==
    IF sol1.Rank < sol2.Rank THEN 1
    ELSE IF sol1.Rank > sol2.Rank THEN -1
    ELSE IF sol1.Crowding > sol2.Crowding THEN 1
    ELSE IF sol1.Crowding < sol2.Crowding THEN -1
    ELSE 0

\* tournamentSelection: the better of population[0] and
\* population[1 % len(population)].
tournamentSelection(pop) ==
    LET best == pop[1]
        candidate == pop[(1 % Len(pop)) + 1]
    IN IF compare(candidate, best) > 0 THEN candidate ELSE best

\* crossover: the first action of each parent; every parameter of parent1,
\* averaged with parent2's when both are numbers.
crossover(parent1, parent2) ==
    [Actions |-> (IF Len(parent1.Actions) > 0 THEN <<parent1.Actions[1]>> ELSE <<>>)
                   \o (IF Len(parent2.Actions) > 0 THEN <<parent2.Actions[1]>> ELSE <<>>),
     Parameters |->
        [key \in DOMAIN parent1.Parameters |->
            IF key = "enable_caching"
            THEN parent1.Parameters[key]
            ELSE (parent1.Parameters[key] + parent2.Parameters[key]) \div 2],
     Objectives |-> <<0, 0, 0, 0>>,
     Rank |-> 0, Crowding |-> 0, TotalTime |-> 0]

\* mutate: every integer parameter i becomes i + v - v / 2, where v is a
\* tenth of i and at least 1.
mutate(solution) ==
    [solution EXCEPT !.Parameters =
        [key \in DOMAIN solution.Parameters |->
            IF key = "enable_caching"
            THEN solution.Parameters[key]
            ELSE LET i == solution.Parameters[key]
                     tenth == i \div 10
                     variation == IF tenth = 0 THEN 1 ELSE tenth
                 IN i + variation - (variation \div 2)]]

\* generateOffspring: populationSize children, each from two tournaments
\* among the parents.
generateOffspring(parents) ==
    [i \in 1..populationSize |->
        mutate(crossover(tournamentSelection(parents), tournamentSelection(parents)))]

\* createNextGeneration, and the end of the generation in Optimize: the
\* population becomes what createNextGeneration returns, and the fronts and
\* the other locals of nonDominatedSort go out of scope.  newPopulation is
\* createNextGeneration's local, kept until the next evaluation.
createNextGeneration ==
    /\ optimizePc = "next"
    /\ \E parents \in addFronts(<<>>, fronts) :
          /\ newPopulation' = parents
          /\ population' = generateOffspring(parents)
    /\ generation' = generation + 1
    /\ optimizePc' = IF generation + 1 < generations THEN "evaluate" ELSE "done"
    /\ dominationCount' = <<>>
    /\ dominatedSolutions' = <<>>
    /\ firstFront' = <<>>
    /\ fronts' = <<>>
    /\ frontIndex' = 0
    /\ UNCHANGED paretoFront
    /\ UNCHANGED otherThanOptimizer

\* NewMultiObjectiveOptimizer, SetupTextLibObjectives and the start of
\* Optimize.
OptimizerInit ==
    /\ population = initializePopulation
    /\ dominationCount = <<>>
    /\ dominatedSolutions = <<>>
    /\ firstFront = <<>>
    /\ fronts = <<>>
    /\ frontIndex = 0
    /\ paretoFront = <<>>
    /\ newPopulation = <<>>
    /\ generation = 0
    /\ optimizePc = "evaluate"

OptimizerNext ==
    \/ OptimizeEvaluate
    \/ nonDominatedSort
    \/ nonDominatedSortNextFront
    \/ OptimizeParetoFront
    \/ createNextGeneration

(***************************************************************************)
(* QLearningAgent                                                          *)
(***************************************************************************)
\* The agent's float64 values are modelled as exact fractions in lowest
\* terms, so that a product is the product and not its rounding.
RECURSIVE GCD(_, _)
GCD(a, b) == IF b = 0 THEN a ELSE GCD(b, a % b)

Abs(x) == IF x < 0 THEN -x ELSE x

Rat(n, d) ==
    LET g == GCD(Abs(n), d)
    IN [num |-> n \div g, den |-> d \div g]

RatMul(x, y) == Rat(x.num * y.num, x.den * y.den)

RatAdd(x, y) ==
    LET g == GCD(x.den, y.den)
    IN Rat(x.num * (y.den \div g) + y.num * (x.den \div g), (x.den \div g) * y.den)

RatSub(x, y) == RatAdd(x, [y EXCEPT !.num = -y.num])

RatLess(x, y) ==
    LET g == GCD(x.den, y.den)
    IN x.num * (y.den \div g) < y.num * (x.den \div g)

\* math.Max
RatMax(x, y) == IF RatLess(x, y) THEN y ELSE x

RECURSIVE RatPow(_, _)
RatPow(x, k) == IF k = 0 THEN Rat(1, 1) ELSE RatMul(x, RatPow(x, k - 1))

\* NewQLearningAgent(0.1, 0.95, ...): the learning rate and the discount
\* factor NewEnhancedRLSystem passes.
LearningRate == Rat(1, 10)
DiscountFactor == Rat(19, 20)

\* The explorationRate, minExploration and decayRate arguments explored:
\* the three NewEnhancedRLSystem passes (1.0, 0.01, 0.995), three with a
\* floor that the decay reaches within MaxUpdates updates, and arguments the
\* constructor accepts as well: an initial rate below the floor, a decay
\* rate above 1 and a negative one.
Hyperparameters ==
    { [explorationRate |-> Rat(1, 1), minExploration |-> Rat(1, 100),
       decayRate |-> Rat(199, 200)],
      [explorationRate |-> Rat(1, 1), minExploration |-> Rat(1, 3),
       decayRate |-> Rat(1, 2)],
      [explorationRate |-> Rat(1, 4), minExploration |-> Rat(1, 4),
       decayRate |-> Rat(1, 1)],
      [explorationRate |-> Rat(1, 2), minExploration |-> Rat(1, 2),
       decayRate |-> Rat(0, 1)],
      [explorationRate |-> Rat(1, 8), minExploration |-> Rat(1, 4),
       decayRate |-> Rat(1, 2)],
      [explorationRate |-> Rat(1, 2), minExploration |-> Rat(1, 4),
       decayRate |-> Rat(3, 2)],
      [explorationRate |-> Rat(1, 1), minExploration |-> Rat(1, 4),
       decayRate |-> Rat(-3, 4)] }

\* The category of each action of the catalogue.
Category(FunctionName) ==
    IF FunctionName = "summarize_text" THEN "generation"
    ELSE IF FunctionName = "format_text" THEN "formatting"
    ELSE IF FunctionName = "validate_output" THEN "utility"
    ELSE "analysis"

\* getActionKey: "<FunctionName>_<Category>".
getActionKey(a) == <<a.FunctionName, Category(a.FunctionName)>>

\* getStateKey: a hash of the task type, the first 100 bytes of the text,
\* the step count and the remaining budget.  The task type and the text are
\* those of one training example; hash collisions are left out.
getStateKey(s) == <<s.StepCount, s.RemainingBudget>>

GetQValue(s, a) ==
    IF /\ getStateKey(s) \in DOMAIN QTable
       /\ getActionKey(a) \in DOMAIN QTable[getStateKey(s)]
    THEN QTable[getStateKey(s)][getActionKey(a)]
    ELSE Rat(0, 1)

\* getMaxQValue: the greatest Q-value of the state over the catalogue.
getMaxQValue(s) ==
    CHOOSE q \in {GetQValue(s, a) : a \in getAvailableActions} :
        \A a \in getAvailableActions : ~RatLess(q, GetQValue(s, a))

\* The states, actions and rewards UpdateQValue is called with: the initial
\* state and its successor by the cheapest action, the two actions selected,
\* a penalty and a reward.
AgentStates ==
    {createInitialState} \cup
        {updateState(createInitialState, a) : a \in {c \in getAvailableActions : c.Cost = 1}}

Rewards == {Rat(-1, 1), Rat(1, 1)}

\* UpdateQValue, line 79, without the floor.
decayedExplorationNoFloor == RatMul(ExplorationRate, DecayRate)

\* UpdateQValue, line 79.
decayedExploration == RatMax(MinExploration, RatMul(ExplorationRate, DecayRate))

NewQLearningAgent ==
    /\ agentPc = "unconstructed"
    /\ \E h \in Hyperparameters :
          /\ ExplorationRate' = h.explorationRate
          /\ MinExploration' = h.minExploration
          /\ DecayRate' = h.decayRate
          /\ explorationRate' = h.explorationRate
    /\ QTable' = <<>>
    /\ agentPc' = "ready"
    /\ UNCHANGED <<updates, observed>>
    /\ UNCHANGED otherThanAgent

\* The state passed is the one the step of runEpisodeWithLogging observed
\* (lines 692-733); the next state is only read.
UpdateQValue(s, a, reward, next) ==
    LET stateKey == getStateKey(s)
        actionKey == getActionKey(a)
        currentQ == GetQValue(s, a)
        maxNextQ == getMaxQValue(next)
        newQ == RatAdd(currentQ,
                       RatMul(LearningRate,
                              RatSub(RatAdd(reward, RatMul(DiscountFactor, maxNextQ)),
                                     currentQ)))
        row == IF stateKey \in DOMAIN QTable THEN QTable[stateKey] ELSE <<>>
    IN
    /\ agentPc = "ready"
    /\ updates < MaxUpdates
    /\ QTable' = [k \in DOMAIN QTable \cup {stateKey} |->
                     IF k = stateKey
                     THEN [ak \in DOMAIN row \cup {actionKey} |->
                              IF ak = actionKey THEN newQ ELSE row[ak]]
                     ELSE QTable[k]]
    /\ ExplorationRate' = decayedExploration
    /\ updates' = updates + 1
    /\ observed' = observed \cup {getStateKey(s)}
    /\ UNCHANGED <<MinExploration, DecayRate, explorationRate, agentPc>>
    /\ UNCHANGED otherThanAgent

AgentUpdate ==
    \E s \in AgentStates, a \in SelectActionWithMetrics, reward \in Rewards,
       next \in AgentStates :
        UpdateQValue(s, a, reward, next)

AgentInit ==
    /\ QTable = <<>>
    /\ ExplorationRate = Rat(0, 1)
    /\ MinExploration = Rat(0, 1)
    /\ DecayRate = Rat(0, 1)
    /\ explorationRate = Rat(0, 1)
    /\ updates = 0
    /\ agentPc = "unconstructed"
    /\ observed = {}

AgentNext ==
    \/ NewQLearningAgent
    \/ AgentUpdate

(***************************************************************************)
(* InsightAnalyzer                                                         *)
(***************************************************************************)
EpisodeIDs == {"ep0", "ep1", "ep2"}

\* The (TotalReward, len(Actions)) pairs of the episode summaries logged.
EpisodeSummaries == {[TotalReward |-> -1, Steps |-> 1],
                     [TotalReward |-> 1, Steps |-> 2],
                     [TotalReward |-> 3, Steps |-> 2]}

\* LogEpisodeSummary: md.episodes[metrics.EpisodeID] = metrics.  Training
\* logs its summaries before main runs the analyzer.
LogEpisodeSummary ==
    /\ reports = <<>>
    /\ \E id \in EpisodeIDs, metrics \in EpisodeSummaries :
          episodes' = Put(episodes, id, metrics)
    /\ UNCHANGED reports
    /\ UNCHANGED otherThanAnalyzer

\* The orders in which a range statement can visit the keys of a map.
RangeOrders(m) ==
    {order \in [1..Cardinality(DOMAIN m) -> DOMAIN m] :
        \A i, j \in DOMAIN order : i # j => order[i] # order[j]}

RECURSIVE SumTotalReward(_)
SumTotalReward(list) ==
    IF list = <<>> THEN 0 ELSE Head(list).TotalReward + SumTotalReward(Tail(list))

RECURSIVE SumSteps(_)
SumSteps(list) ==
    IF list = <<>> THEN 0 ELSE Head(list).Steps + SumSteps(Tail(list))

\* A float64 quotient: an exact fraction, or for a zero divisor the sign of
\* the dividend over 0 (+Inf, -Inf, NaN).
Quotient(n, d) ==
    IF d = 0
    THEN [num |-> IF n > 0 THEN 1 ELSE IF n < 0 THEN -1 ELSE 0, den |-> 0]
    ELSE Rat(n, d)

\* calculateLearningEfficiency:
\*   (secondAvg - firstAvg) / |firstAvg|
\*     = (secondSum * n1 - firstSum * n2) / (n2 * |firstSum|).
calculateLearningEfficiency(list) ==
    IF Len(list) < 2
    THEN Rat(0, 1)
    ELSE LET n1 == Len(list) \div 2
             n2 == Len(list) - n1
             firstSum == SumTotalReward(SubSeq(list, 1, n1))
             secondSum == SumTotalReward(SubSeq(list, n1 + 1, Len(list)))
         IN Quotient(secondSum * n1 - firstSum * n2, n2 * Abs(firstSum))

\* analyzePerformance, with the episode list built by ranging over the
\* map in the given order.  The sums do not depend on the order, the
\* learning efficiency compares the first half of the list with the second.
analyzePerformance(order) ==
    IF DOMAIN episodes = {}
    THEN [TotalEpisodes |-> 0, TotalSteps |-> 0,
          AvgEpisodeReward |-> Rat(0, 1), OverallSuccessRate |-> Rat(0, 1),
          LearningEfficiency |-> Rat(0, 1)]
    ELSE LET episodesList == [i \in DOMAIN order |-> episodes[order[i]]]
             totalEpisodes == Len(episodesList)
             successfulEpisodes ==
                 Cardinality({i \in DOMAIN order : episodesList[i].TotalReward > 0})
         IN [TotalEpisodes |-> totalEpisodes,
             TotalSteps |-> SumSteps(episodesList),
             AvgEpisodeReward |-> Rat(SumTotalReward(episodesList), totalEpisodes),
             OverallSuccessRate |-> Rat(successfulEpisodes, totalEpisodes),
             LearningEfficiency |-> calculateLearningEfficiency(episodesList)]

\* GenerateInsights: the report's PerformanceMetrics, the part computed
\* from the episode store's rewards and step counts.
GenerateInsights ==
    /\ Len(reports) < MaxReports
    /\ \E order \in RangeOrders(episodes) :
          reports' = Append(reports, [PerformanceMetrics |-> analyzePerformance(order)])
    /\ UNCHANGED episodes
    /\ UNCHANGED otherThanAnalyzer

AnalyzerInit ==
    /\ episodes = <<>>
    /\ reports = <<>>

AnalyzerNext ==
    \/ LogEpisodeSummary
    \/ GenerateInsights

(***************************************************************************)
(* ParameterOptimizer                                                      *)
(***************************************************************************)
\* The caller's ranges: one parameter of each type, as in the tests and in
\* GetTextLibParameterRanges.
ranges ==
    [param1 |-> [Type |-> "int", Min |-> 1, Max |-> 3],
     param2 |-> [Type |-> "float", Min |-> Rat(1, 10), Max |-> Rat(9, 10)],
     param3 |-> [Type |-> "bool"],
     param4 |-> [Type |-> "enum",
                 Options |-> <<"standard", "aggressive", "conservative">>]]

\* The order in which a range statement visits the parameters of ranges.
ParamNames == <<"param1", "param2", "param3", "param4">>

FunctionNames == {"test_function", "benchmark_func"}

\* The caller's fitness function: param1 + param2.
fitnessFunc(params) == RatAdd(Rat(params["param1"], 1), params["param2"])

mutationRate == Rat(1, 10)
crossoverRate == Rat(7, 10)
tournamentSize == 3

\* math/rand: the draws of rand.Float64(), each in [0, 1), that the source
\* goes on to produce.  A source is a cycle of draws and a position in it.
Streams ==
    { <<Rat(0, 1)>>,
      <<Rat(19, 20)>>,
      <<Rat(1, 2), Rat(1, 20), Rat(9, 10), Rat(1, 3), Rat(3, 4)>>,
      <<Rat(9, 10), Rat(1, 3), Rat(0, 1), Rat(3, 4), Rat(1, 20), Rat(1, 2),
        Rat(2, 3)>>,
      <<Rat(1, 4), Rat(4, 5), Rat(1, 20), Rat(19, 20), Rat(2, 5)>>,
      <<Rat(3, 4), Rat(1, 20), Rat(1, 5), Rat(9, 10), Rat(1, 2), Rat(19, 20),
        Rat(2, 5), Rat(3, 5), Rat(1, 20), Rat(7, 10), Rat(1, 3), Rat(0, 1),
        Rat(4, 5)>> }

Float64(r) == r.stream[r.pos + 1]

\* rand.Intn(n): a draw scaled to 0 .. n-1.
Intn(r, n) == (Float64(r).num * n) \div Float64(r).den

Drawn(r) == [r EXCEPT !.pos = (r.pos + 1) % Len(r.stream)]

\* generateRandomValue with the int case lacking "+ min".
generateRandomValueNoOffset(paramRange, r) ==
    CASE paramRange.Type = "int" ->
           [value |-> Intn(r, paramRange.Max - paramRange.Min + 1),
            rnd |-> Drawn(r)]
      [] paramRange.Type = "float" ->
           [value |-> RatAdd(paramRange.Min,
                             RatMul(Float64(r), RatSub(paramRange.Max, paramRange.Min))),
            rnd |-> Drawn(r)]
      [] paramRange.Type = "bool" ->
           [value |-> RatLess(Float64(r), Rat(1, 2)), rnd |-> Drawn(r)]
      [] paramRange.Type = "enum" ->
           [value |-> paramRange.Options[Intn(r, Len(paramRange.Options)) + 1],
            rnd |-> Drawn(r)]
      [] OTHER -> [value |-> paramRange.Default, rnd |-> r]

\* generateRandomValue: the value and the source after the draw.
generateRandomValue(paramRange, r) ==
    CASE paramRange.Type = "int" ->
           [value |-> Intn(r, paramRange.Max - paramRange.Min + 1) + paramRange.Min,
            rnd |-> Drawn(r)]
      [] paramRange.Type = "float" ->
           [value |-> RatAdd(paramRange.Min,
                             RatMul(Float64(r), RatSub(paramRange.Max, paramRange.Min))),
            rnd |-> Drawn(r)]
      [] paramRange.Type = "bool" ->
           [value |-> RatLess(Float64(r), Rat(1, 2)), rnd |-> Drawn(r)]
      [] paramRange.Type = "enum" ->
           [value |-> paramRange.Options[Intn(r, Len(paramRange.Options)) + 1],
            rnd |-> Drawn(r)]
      [] OTHER -> [value |-> paramRange.Default, rnd |-> r]

\* initializePopulation's inner loop: one individual.
RECURSIVE randomIndividual(_, _, _)
randomIndividual(names, individual, r) ==
    IF names = <<>>
    THEN [value |-> individual, rnd |-> r]
    ELSE LET g == generateRandomValue(ranges[Head(names)], r)
         IN randomIndividual(Tail(names), Put(individual, Head(names), g.value), g.rnd)

RECURSIVE initializePopulationFrom(_, _, _)
initializePopulationFrom(i, pop, r) ==
    IF i >= poPopulationSize
    THEN [value |-> pop, rnd |-> r]
    ELSE LET individual == randomIndividual(ParamNames, <<>>, r)
         IN initializePopulationFrom(i + 1, Append(pop, individual.value),
                                     individual.rnd)

\* ParameterOptimizer.initializePopulation.
initializeParameterPopulation(r) == initializePopulationFrom(0, <<>>, r)

\* OptimizeParameters, lines 94-97: the fitness of every individual.
evaluateFitness(pop) == [i \in 1..Len(pop) |-> fitnessFunc(pop[i])]

\* OptimizeParameters, lines 100-105: the first index of maximal fitness.
RECURSIVE trackBest(_, _, _)
trackBest(fitness, i, bestIdx) ==
    IF i > Len(fitness)
    THEN bestIdx
    ELSE trackBest(fitness, i + 1,
                   IF RatLess(fitness[bestIdx], fitness[i]) THEN i ELSE bestIdx)

\* An ascending comparison.
sortsBeforeInverted(fj, fi) == RatLess(fj, fi)

\* sortByFitness, line 270: fitness[indices[j]] > fitness[indices[i]].
sortsBefore(fj, fi) == RatLess(fi, fj)

\* sortByFitness: the exchange sort of the indices, by descending fitness.
RECURSIVE sortByFitnessFrom(_, _, _, _)
sortByFitnessFrom(fitness, indices, i, j) ==
    IF i >= Len(indices)
    THEN indices
    ELSE IF j > Len(indices)
         THEN sortByFitnessFrom(fitness, indices, i + 1, i + 2)
         ELSE sortByFitnessFrom(
                  fitness,
                  IF sortsBefore(fitness[indices[j]], fitness[indices[i]])
                  THEN [indices EXCEPT ![i] = indices[j], ![j] = indices[i]]
                  ELSE indices,
                  i, j + 1)

sortByFitness(fitness) ==
    sortByFitnessFrom(fitness, [k \in 1..Len(fitness) |-> k], 1, 2)

\* ParameterOptimizer.tournamentSelection: the best of tournamentSize draws.
RECURSIVE tournamentFrom(_, _, _, _)
tournamentFrom(fitness, i, bestIdx, r) ==
    IF i >= tournamentSize
    THEN [value |-> bestIdx, rnd |-> r]
    ELSE LET idx == Intn(r, Len(fitness)) + 1
         IN tournamentFrom(fitness, i + 1,
                           IF RatLess(fitness[bestIdx], fitness[idx]) THEN idx ELSE bestIdx,
                           Drawn(r))

tournamentSelectionParams(pop, fitness, r) ==
    LET t == tournamentFrom(fitness, 1, Intn(r, Len(pop)) + 1, Drawn(r))
    IN [value |-> pop[t.value], rnd |-> t.rnd]

\* ParameterOptimizer.crossover: each parameter from parent1 with
\* probability crossoverRate, else from parent2.
RECURSIVE crossoverFrom(_, _, _, _, _)
crossoverFrom(names, child, parent1, parent2, r) ==
    IF names = <<>>
    THEN [value |-> child, rnd |-> r]
    ELSE LET paramName == Head(names)
             taken == IF RatLess(Float64(r), crossoverRate)
                      THEN parent1[paramName]
                      ELSE parent2[paramName]
         IN crossoverFrom(Tail(names), Put(child, paramName, taken),
                          parent1, parent2, Drawn(r))

crossoverParams(parent1, parent2, r) ==
    crossoverFrom(ParamNames, <<>>, parent1, parent2, r)

\* ParameterOptimizer.mutate: each parameter drawn anew with probability
\* mutationRate, on a copy of the individual.
RECURSIVE mutateFrom(_, _, _)
mutateFrom(names, mutated, r) ==
    IF names = <<>>
    THEN [value |-> mutated, rnd |-> r]
    ELSE IF RatLess(Float64(r), mutationRate)
         THEN LET g == generateRandomValue(ranges[Head(names)], Drawn(r))
              IN mutateFrom(Tail(names), Put(mutated, Head(names), g.value), g.rnd)
         ELSE mutateFrom(Tail(names), mutated, Drawn(r))

mutateParams(individual, r) == mutateFrom(ParamNames, individual, r)

eliteCount == poPopulationSize \div 10

\* evolvePopulation, lines 180-188: the children.
RECURSIVE evolveFrom(_, _, _, _, _)
evolveFrom(i, next, pop, fitness, r) ==
    IF i >= poPopulationSize
    THEN [value |-> next, rnd |-> r]
    ELSE LET parent1 == tournamentSelectionParams(pop, fitness, r)
             parent2 == tournamentSelectionParams(pop, fitness, parent1.rnd)
             child == crossoverParams(parent1.value, parent2.value, parent2.rnd)
             mutated == mutateParams(child.value, child.rnd)
         IN evolveFrom(i + 1, Append(next, mutated.value), pop, fitness,
                       mutated.rnd)

\* evolvePopulation: copies of the eliteCount fittest, then the children.
evolvePopulation(pop, fitness, r) ==
    LET indices == sortByFitness(fitness)
        elite == [i \in 1..eliteCount |-> pop[indices[i]]]
    IN evolveFrom(eliteCount, elite, pop, fitness, r)

\* A selectBest that never moves bestIdx.
selectFirst(pop) == pop[1]

\* selectBest: the first individual of maximal fitness, found by the same
\* loop as lines 100-105.
selectBest(pop) == pop[trackBest(evaluateFitness(pop), 2, 1)]

NilParams == <<>>

\* copy(dst, src): the first min(len(dst), len(src)) elements.
copyInto(dst, src) ==
    [i \in 1..Len(dst) |-> IF i <= Len(src) THEN src[i] ELSE dst[i]]

HistoryOf(functionName) ==
    IF functionName \in DOMAIN parameterHistory
    THEN parameterHistory[functionName]
    ELSE <<>>

\* OptimizeParameters up to its loop: initializePopulation.
OptimizeParametersBegin ==
    /\ poPc \in {"idle", "returned"}
    /\ poCalls < MaxCalls
    /\ \E functionName \in FunctionNames, stream \in Streams :
          LET initial == initializeParameterPopulation([stream |-> stream, pos |-> 0])
          IN /\ poFunctionName' = functionName
             /\ poPopulation' = initial.value
             /\ rand' = initial.rnd
    /\ poGeneration' = 0
    /\ poCalls' = poCalls + 1
    /\ poPc' = "running"
    /\ UNCHANGED <<bestParameters, parameterHistory, poResult>>
    /\ UNCHANGED otherThanParams

\* One iteration of OptimizeParameters' loop: evaluate, track the best,
\* append the generation's record with empty Population and Fitness slices,
\* copy the population and the fitness into the record at index
\* generation of the function's history, and evolve.
OptimizeParametersGeneration ==
    /\ poPc = "running"
    /\ poGeneration < poGenerations
    /\ LET fitness == evaluateFitness(poPopulation)
           bestIdx == trackBest(fitness, 1, 1)
           record == [Generation |-> poGeneration,
                      Population |-> [i \in 1..Len(poPopulation) |-> NilParams],
                      Fitness |-> [i \in 1..Len(fitness) |-> Rat(0, 1)],
                      BestParams |-> poPopulation[bestIdx],
                      BestFitness |-> fitness[bestIdx]]
           appended == Append(HistoryOf(poFunctionName), record)
           stored == [appended EXCEPT
                        ![poGeneration + 1].Population = copyInto(@, poPopulation),
                        ![poGeneration + 1].Fitness = copyInto(@, fitness)]
           evolved == evolvePopulation(poPopulation, fitness, rand)
       IN /\ parameterHistory' = Put(parameterHistory, poFunctionName, stored)
          /\ poPopulation' = evolved.value
          /\ rand' = evolved.rnd
    /\ poGeneration' = poGeneration + 1
    /\ UNCHANGED <<bestParameters, poFunctionName, poResult, poCalls, poPc>>
    /\ UNCHANGED otherThanParams

\* OptimizeParameters after its loop: selectBest, store, return.
OptimizeParametersReturn ==
    /\ poPc = "running"
    /\ poGeneration >= poGenerations
    /\ LET bestParams == selectBest(poPopulation)
       IN /\ bestParameters' = Put(bestParameters, poFunctionName, bestParams)
          /\ poResult' = bestParams
    /\ poPc' = "returned"
    /\ UNCHANGED <<parameterHistory, poFunctionName, poPopulation, poGeneration,
                   poCalls, rand>>
    /\ UNCHANGED otherThanParams

\* NewParameterOptimizer, with the tests' populationSize and generations.
ParamInit ==
    /\ bestParameters = <<>>
    /\ parameterHistory = <<>>
    /\ poFunctionName = None
    /\ poPopulation = <<>>
    /\ poGeneration = 0
    /\ poResult = NilParams
    /\ poCalls = 0
    /\ poPc = "idle"
    /\ rand = [stream |-> <<Rat(0, 1)>>, pos |-> 0]

ParamNext ==
    \/ OptimizeParametersBegin
    \/ OptimizeParametersGeneration
    \/ OptimizeParametersReturn

(***************************************************************************)
(* ActionSimulator                                                         *)
(***************************************************************************)
\* NewActionSimulator: the functions, with BaseSuccessRate in hundredths.
SimulatedFunctions ==
    { [Name |-> "extract_entities", Cost |-> 5, BaseSuccessRate |-> 85],
      [Name |-> "analyze_readability", Cost |-> 3, BaseSuccessRate |-> 90],
      [Name |-> "detect_code", Cost |-> 2, BaseSuccessRate |-> 95],
      [Name |-> "extract_keywords", Cost |-> 4, BaseSuccessRate |-> 88],
      [Name |-> "sentiment_analysis", Cost |-> 3, BaseSuccessRate |-> 82],
      [Name |-> "summarize_text", Cost |-> 8, BaseSuccessRate |-> 75],
      [Name |-> "format_text", Cost |-> 2, BaseSuccessRate |-> 98],
      [Name |-> "validate_output", Cost |-> 1, BaseSuccessRate |-> 99] }

\* The function names ExecuteAction is called with: those of the catalogue
\* and the no_op action, which the simulator does not know.
ActionNames == {f.Name : f \in SimulatedFunctions} \cup {"no_op"}

\* The values of time.Now().UnixNano() % 1000.
Nanos == 0..999

\* simulateSuccess: baseRate + 0.1 * (0.5 - nano / 1000.0) > 0.5, with both
\* sides multiplied by 10000.  The two sides differ by 0.2 at least for the
\* rates above, so floating-point rounding does not change the outcome.
simulateSuccess(baseRate, nano) ==
    baseRate * 100 + (500 - nano) > 5000

NoResult == [Success |-> FALSE, Output |-> None, Error |-> ""]

\* ExecuteAction, lines 73-88: an unknown function fails at once; for a known
\* one the call sleeps for the simulated execution time.
ExecuteActionBegin(name) ==
    /\ simPc \in {"idle", "returned"}
    /\ simFunction' = name
    /\ simNano' = 0
    /\ IF \A f \in SimulatedFunctions : f.Name # name
       THEN /\ simResult' = [Success |-> FALSE, Output |-> None,
                             Error |-> "unknown function"]
            /\ simPc' = "returned"
       ELSE /\ simResult' = NoResult
            /\ simPc' = "sleeping"
    /\ UNCHANGED otherThanSimulator

\* ExecuteAction, lines 90-113: after the sleep simulateSuccess reads the
\* clock; on success the function's OutputGenerator, none of which returns
\* an error, produces the output.
ExecuteActionReturn(nano) ==
    /\ simPc = "sleeping"
    /\ simNano' = nano
    /\ LET function == CHOOSE f \in SimulatedFunctions : f.Name = simFunction
           success == simulateSuccess(function.BaseSuccessRate, nano)
       IN simResult' = IF success
                       THEN [Success |-> TRUE, Output |-> simFunction, Error |-> ""]
                       ELSE [Success |-> FALSE, Output |-> None,
                             Error |-> "simulated failure"]
    /\ simPc' = "returned"
    /\ UNCHANGED simFunction
    /\ UNCHANGED otherThanSimulator

ExecuteActionCall == \E name \in ActionNames : ExecuteActionBegin(name)

ExecuteAction == \E nano \in Nanos : ExecuteActionReturn(nano)

SimulatorInit ==
    /\ simPc = "idle"
    /\ simFunction = None
    /\ simNano = 0
    /\ simResult = NoResult

SimulatorNext ==
    \/ ExecuteActionCall
    \/ ExecuteAction

(***************************************************************************)
(* Log cleanup                                                             *)
(***************************************************************************)
\* The .json files the logger writes: episode_<id>.json, events_<sec>.json
\* and the one insights.json.
LogKinds == {"episode", "events", "insights"}

\* File sizes, in MB.
FileSizes == {1, 30}

\* The (maxSizeMB, maxFiles) arguments of AutoCleanup: the size limit of the
\* training command, with file-count limits scaled to the files written.
CleanupLimits == {[maxSizeMB |-> 50, maxFiles |-> 2],
                  [maxSizeMB |-> 50, maxFiles |-> 3]}

\* os.WriteFile of a log file: a new episode or events file, or insights.json
\* written anew.  The clock may or may not have advanced since the last write.
WriteLogFile(kind, size) ==
    /\ written < MaxLogFiles
    /\ written' = written + 1
    /\ \E t \in {dirClock, dirClock + 1} :
          LET name == IF kind = "insights" THEN <<kind, 0>> ELSE <<kind, written + 1>>
              file == [name |-> name, kind |-> kind, size |-> size, modTime |-> t]
          IN /\ dirClock' = t
             /\ logDir' = {f \in logDir : f.name # name} \cup {file}
    /\ UNCHANGED <<cleanups, lastCleanup>>
    /\ UNCHANGED otherThanCleanup

RECURSIVE TotalSize(_)
TotalSize(dir) ==
    IF dir = {} THEN 0
    ELSE LET f == CHOOSE x \in dir : TRUE IN f.size + TotalSize(dir \ {f})

\* GetLogDirSize: the total size and the number of the .json files.
GetLogDirSize(dir) == [size |-> TotalSize(dir), count |-> Cardinality(dir)]

\* The files the two globs of CleanupOldLogs match.
allFiles(dir) == {f \in dir : f.kind \in {"episode", "events"}}

\* CleanupOldLogs with DryRun false: the directories it can leave.  With
\* more matched files than config.MaxEpisodeFiles it sorts them by
\* modification time and removes the first len - MaxEpisodeFiles; sort.Slice
\* places files of equal time in any order.
CleanupOldLogs(config, dir) ==
    IF Cardinality(allFiles(dir)) <= config.MaxEpisodeFiles
    THEN {dir}
    ELSE LET filesToDelete == Cardinality(allFiles(dir)) - config.MaxEpisodeFiles
         IN {dir \ D : D \in {E \in SUBSET allFiles(dir) :
                    /\ Cardinality(E) = filesToDelete
                    /\ \A d \in E, r \in allFiles(dir) \ E : d.modTime <= r.modTime}}

needsCleanup(dir, maxSizeMB, maxFiles) ==
    GetLogDirSize(dir).size > maxSizeMB \/ GetLogDirSize(dir).count > maxFiles

\* AutoCleanup(logDir, maxSizeMB, maxFiles)
AutoCleanup(maxSizeMB, maxFiles) ==
    /\ cleanups < MaxCleanups
    /\ cleanups' = cleanups + 1
    /\ lastCleanup' = [maxSizeMB |-> maxSizeMB, maxFiles |-> maxFiles]
    /\ IF ~needsCleanup(logDir, maxSizeMB, maxFiles)
       THEN logDir' = logDir
       ELSE logDir' \in CleanupOldLogs([MaxEpisodeFiles |-> maxFiles \div 2], logDir)
    /\ UNCHANGED <<written, dirClock>>
    /\ UNCHANGED otherThanCleanup

LogWrite == \E kind \in LogKinds, size \in FileSizes : WriteLogFile(kind, size)

CleanupCall == \E l \in CleanupLimits : AutoCleanup(l.maxSizeMB, l.maxFiles)

CleanupInit ==
    /\ logDir = {}
    /\ written = 0
    /\ dirClock = 0
    /\ cleanups = 0
    /\ lastCleanup = [maxSizeMB |-> 0, maxFiles |-> 0]

CleanupNext ==
    \/ LogWrite
    \/ CleanupCall

(***************************************************************************)
(* RewardCalculator and EnhancedRewardCalculator                           *)
(***************************************************************************)
\* math.Min
RatMin(x, y) == IF RatLess(y, x) THEN y ELSE x

RatLeq(x, y) == ~RatLess(y, x)

Repeat(name, n) == [i \in 1..n |-> name]

\* States of an episode at the start of a step: the initial one, one after a
\* first action, one after nine repetitions of the cheapest action, one with
\* a low budget after five of the dearest, and one after three actions of
\* three categories.
RewardStates ==
    { createInitialState,
      [StepCount |-> 1, RemainingBudget |-> 45, ActionsUsed |-> <<"extract_entities">>],
      [StepCount |-> 9, RemainingBudget |-> 41,
       ActionsUsed |-> Repeat("validate_output", 9)],
      [StepCount |-> 5, RemainingBudget |-> 10,
       ActionsUsed |-> Repeat("summarize_text", 5)],
      [StepCount |-> 3, RemainingBudget |-> 42,
       ActionsUsed |-> <<"extract_entities", "format_text", "validate_output">>] }

\* Training examples: three of GetDiverseTrainingData and the default one of
\* selectTrainingExample, with the keys of their Expected maps.
TrainingExamples ==
    { [TaskType |-> "business_communication", Difficulty |-> Rat(1, 2),
       Expected |-> {"entities", "sentiment", "has_action_items",
                     "readability_score", "format_type", "has_deadline"}],
      [TaskType |-> "medical_analysis", Difficulty |-> Rat(9, 10),
       Expected |-> {"entities", "medical_terms", "urgency_level",
                     "has_measurements", "readability_score"}],
      [TaskType |-> "code_analysis", Difficulty |-> Rat(7, 10),
       Expected |-> {"has_code", "language", "entities", "code_complexity",
                     "has_comments", "function_count"}],
      [TaskType |-> "comprehensive", Difficulty |-> Rat(1, 2),
       Expected |-> {"entities", "quality"}] }

NilOutput ==
    [keys |-> {}, score |-> Rat(0, 1), confidence |-> Rat(0, 1), entities |-> 0,
     readability_score |-> Rat(0, 1)]

\* The maps the OutputGenerator of a function returns: their keys, and the
\* values the reward calculators read.
Outputs(name) ==
    IF name = "extract_entities"
    THEN {[NilOutput EXCEPT !.keys = {"entities", "count"}, !.entities = n] :
              n \in {0, 3, 20}}
    ELSE IF name = "analyze_readability"
    THEN {[NilOutput EXCEPT !.keys = {"readability_score", "avg_words_per_sentence",
                                      "total_words", "total_sentences", "level"},
                            !.readability_score = r] : r \in {Rat(25, 1), Rat(60, 1)}}
    ELSE IF name = "detect_code"
    THEN {[NilOutput EXCEPT !.keys = {"has_code", "code_blocks", "confidence"},
                            !.confidence = c] : c \in {Rat(0, 1), Rat(1, 2)}}
    ELSE IF name = "extract_keywords"
    THEN {[NilOutput EXCEPT !.keys = {"keywords", "count"}]}
    ELSE IF name = "sentiment_analysis"
    THEN {[NilOutput EXCEPT !.keys = {"sentiment", "score", "positive_count",
                                      "negative_count", "confidence"},
                            !.score = sc, !.confidence = Rat(3, 4)] :
              sc \in {Rat(-2, 3), Rat(0, 1), Rat(2, 3)}}
    ELSE IF name = "summarize_text"
    THEN {[NilOutput EXCEPT !.keys = {"summary", "ratio"}],
          [NilOutput EXCEPT !.keys = {"summary", "original_length", "summary_length",
                                      "compression_ratio"}]}
    ELSE IF name = "format_text"
    THEN {[NilOutput EXCEPT !.keys = {"formatted_text", "changes_made"}]}
    ELSE {[NilOutput EXCEPT !.keys = {"is_valid", "issues", "score"},
                            !.score = Rat(19, 20)]}

\* result.Duration in milliseconds: ExecuteAction sleeps len(input)/100 +
\* Cost*10 ms; a short text and one of 3000 bytes for every Cost*10 ms.
Durations(a) == {a.Cost * 10, a.Cost * 10 + a.Cost * 30}

\* The results ExecuteAction can return for an action.
ActionResults(a) ==
    {[Success |-> TRUE, Output |-> o, Duration |-> d] :
         o \in Outputs(a.FunctionName), d \in Durations(a)}
    \cup {[Success |-> FALSE, Output |-> NilOutput, Duration |-> d] : d \in Durations(a)}

Occurrences(seq, x) == Cardinality({i \in 1..Len(seq) : seq[i] = x})

\* NewEnhancedRLSystem: RewardCalc.TaskWeights
rcTaskWeight(taskType) ==
    IF taskType = "entity_extraction" THEN Rat(1, 1)
    ELSE IF taskType = "readability_analysis" THEN Rat(4, 5)
    ELSE IF taskType = "code_analysis" THEN Rat(9, 10)
    ELSE IF taskType = "comprehensive" THEN Rat(6, 5)
    ELSE Rat(1, 1)

\* calculateQualityBonus: the output is nil or one of the maps above.
calculateQualityBonus(output) ==
    IF output = NilOutput THEN Rat(0, 1)
    ELSE LET score == IF "score" \in output.keys THEN output.score ELSE Rat(0, 1)
             conf == IF "confidence" \in output.keys THEN output.confidence
                     ELSE Rat(0, 1)
             fieldCount == Cardinality(output.keys \cap
                               {"count", "entities", "keywords", "summary", "sentiment"})
         IN RatMin(Rat(2, 1), RatAdd(RatAdd(score, conf), Rat(fieldCount * 2, 10)))

\* RewardCalculator.calculateDiversityBonus
calculateDiversityBonus(actionsUsed, currentAction) ==
    IF Occurrences(actionsUsed, currentAction) > 0 THEN Rat(0, 1) ELSE Rat(1, 2)

\* math.Max(lo, math.Min(hi, totalReward))
normalize(lo, hi, totalReward) == RatMax(lo, RatMin(hi, totalReward))

\* RewardCalculator.CalculateReward; state.TaskType is the example's.
rcCalculateReward(taskType, s, a, result) ==
    IF ~result.Success THEN Rat(-1, 1)
    ELSE LET baseReward == rcTaskWeight(taskType)
             efficiencyBonus == Rat(1, a.Cost)
             qualityBonus == calculateQualityBonus(result.Output)
             timePenalty == RatMin(Rat(1, 2), Rat(result.Duration, 10000))
             stepPenalty == Rat(s.StepCount, 10)
             diversityBonus == calculateDiversityBonus(s.ActionsUsed, a.FunctionName)
             totalReward ==
                 RatSub(RatSub(RatAdd(RatAdd(RatAdd(baseReward, efficiencyBonus),
                                             qualityBonus), diversityBonus),
                               timePenalty), stepPenalty)
         IN normalize(Rat(-5, 1), Rat(5, 1), totalReward)

\* NewEnhancedRewardCalculator: TaskWeights, 1 for a task type without one.
ercTaskWeight(taskType) ==
    IF taskType = "business_communication" THEN Rat(1, 1)
    ELSE IF taskType = "medical_analysis" THEN Rat(3, 2)
    ELSE IF taskType = "code_analysis" THEN Rat(13, 10)
    ELSE Rat(1, 1)

calculateRelevanceBonus(a, example) ==
    IF example.TaskType = "code_analysis"
       /\ a.FunctionName \in {"detect_code", "analyze_readability"}
    THEN Rat(1, 1)
    ELSE IF example.TaskType = "business_communication"
            /\ a.FunctionName \in {"sentiment_analysis", "extract_entities"}
    THEN Rat(7, 10)
    ELSE IF example.TaskType = "medical_analysis" /\ a.FunctionName = "extract_entities"
    THEN Rat(1, 1)
    ELSE Rat(0, 1)

\* NewEnhancedRewardCalculator: QualityThresholds; of the catalogue's names
\* only sentiment_analysis is a key of it.
assessOutputQuality(a, result, example) ==
    LET output == result.Output
        expected == IF a.FunctionName \in example.Expected THEN Rat(1, 2) ELSE Rat(0, 1)
        completeness ==
            IF a.FunctionName = "extract_entities" /\ "entities" \in output.keys
            THEN Rat(output.entities, 10)
            ELSE IF /\ a.FunctionName = "analyze_readability"
                    /\ "readability_score" \in output.keys
                    /\ RatLeq(Rat(30, 1), output.readability_score)
                    /\ RatLeq(output.readability_score, Rat(90, 1))
            THEN Rat(2, 5)
            ELSE IF /\ a.FunctionName = "sentiment_analysis"
                    /\ "score" \in output.keys /\ "confidence" \in output.keys
            THEN Rat(1, 2)
            ELSE Rat(0, 1)
        quality == RatAdd(expected, completeness)
        scaled == IF a.FunctionName = "sentiment_analysis" /\ RatLeq(Rat(3, 4), quality)
                  THEN RatMul(quality, Rat(6, 5))
                  ELSE quality
    IN RatMin(Rat(3, 2), scaled)

calculateEfficiencyScore(s, a) ==
    LET budgetRatio == Rat(s.RemainingBudget, 50)
        costEfficiency == Rat(1, a.Cost)
    IN IF RatLess(budgetRatio, Rat(3, 10)) /\ a.Cost > 5
       THEN Rat(-1, 2)
       ELSE RatMul(costEfficiency, budgetRatio)

\* NewEnhancedRewardCalculator: SequenceBonus, then the switch on lastAction.
calculateSequenceBonus(s, a) ==
    IF Len(s.ActionsUsed) = 0 THEN Rat(0, 1)
    ELSE LET lastAction == s.ActionsUsed[Len(s.ActionsUsed)]
             name == a.FunctionName
         IN IF lastAction = "extract_entities" /\ name = "extract_keywords"
            THEN Rat(3, 10)
            ELSE IF lastAction = "detect_code" /\ name = "analyze_readability"
            THEN Rat(1, 5)
            ELSE IF lastAction = "extract_keywords" /\ name = "sentiment_analysis"
            THEN Rat(1, 4)
            ELSE IF lastAction = "analyze_readability" /\ name = "summarize_text"
            THEN Rat(2, 5)
            ELSE IF lastAction = "extract_entities" /\ name = "validate_output"
            THEN Rat(1, 5)
            ELSE Rat(0, 1)

\* strings.Contains(key, strings.Split(FunctionName, "_")[0]) for the keys of
\* the examples above: "sentiment" holds "sentiment" and "format_type" holds
\* "format"; no key holds "extract", "analyze", "detect", "summarize" or
\* "validate".
Contains(key, name) ==
    \/ key = "sentiment" /\ name = "sentiment_analysis"
    \/ key = "format_type" /\ name = "format_text"

calculateProgressReward(s, a, example) ==
    LET matches == Cardinality({key \in example.Expected : Contains(key, a.FunctionName)})
        actionTypes ==
            {IF usedAction = "format_text" THEN "formatting"
             ELSE IF usedAction = "validate_output" THEN "validation"
             ELSE "analysis" :
                 usedAction \in {s.ActionsUsed[i] : i \in 1..Len(s.ActionsUsed)}}
    IN RatAdd(Rat(3 * matches, 10),
              IF Cardinality(actionTypes) >= 2 THEN Rat(1, 5) ELSE Rat(0, 1))

calculateRedundancyPenalty(s, a) ==
    Rat(3 * Occurrences(s.ActionsUsed, a.FunctionName), 10)

calculateTimeBonus(result, a) ==
    LET executionMs == result.Duration
        expectedMs == a.Cost * 10
    IN IF executionMs < expectedMs THEN Rat(1, 10)
       ELSE IF executionMs > expectedMs * 2 THEN Rat(-1, 10)
       ELSE Rat(0, 1)

\* EnhancedRewardCalculator.calculateDiversityBonus
ercCalculateDiversityBonus(s) ==
    LET uniqueActions == {s.ActionsUsed[i] : i \in 1..Len(s.ActionsUsed)}
    IN RatMul(Rat(Cardinality(uniqueActions), Len(s.ActionsUsed) + 1), Rat(3, 10))

\* The failure penalty with the cost unscaled.
failurePenaltyUnscaled(a) == RatSub(Rat(-1, 1), Rat(a.Cost, 1))

\* EnhancedRewardCalculator.CalculateReward, line 51
failurePenalty(a) == RatSub(Rat(-1, 1), Rat(a.Cost, 10))

\* EnhancedRewardCalculator.CalculateReward
ercCalculateReward(s, a, result, example) ==
    IF ~result.Success THEN failurePenalty(a)
    ELSE LET baseReward == ercTaskWeight(example.TaskType)
             relevanceBonus == calculateRelevanceBonus(a, example)
             qualityScore == assessOutputQuality(a, result, example)
             efficiencyScore == calculateEfficiencyScore(s, a)
             sequenceBonus == calculateSequenceBonus(s, a)
             progressReward == calculateProgressReward(s, a, example)
             redundancyPenalty == calculateRedundancyPenalty(s, a)
             timeBonus == calculateTimeBonus(result, a)
             diversityBonus == ercCalculateDiversityBonus(s)
             totalReward ==
                 RatAdd(RatAdd(RatSub(RatAdd(RatAdd(RatAdd(RatAdd(RatAdd(
                     baseReward, relevanceBonus), qualityScore), efficiencyScore),
                     sequenceBonus), progressReward), redundancyPenalty),
                     timeBonus), diversityBonus)
             scaled == RatMul(totalReward,
                              RatAdd(Rat(1, 1), RatMul(example.Difficulty, Rat(1, 2))))
         IN normalize(Rat(-5, 1), Rat(10, 1), scaled)

NoReward == Rat(0, 1)

\* runEpisodeWithLogging, lines 680-704: the example of the episode, the
\* state of the step and the action selected for it.
RewardSelect ==
    /\ rewardPc \in {"idle", "calculated"}
    /\ \E s \in RewardStates, a \in getAvailableActions, example \in TrainingExamples :
          rewardArgs' = [state |-> s, action |-> a, example |-> example]
    /\ rewardPc' = "selected"
    /\ rewardResult' = [Success |-> FALSE, Output |-> NilOutput, Duration |-> 0]
    /\ basicReward' = NoReward
    /\ enhancedReward' = NoReward
    /\ UNCHANGED otherThanReward

\* runEpisodeWithLogging, lines 713-717: the action's result and the rewards
\* of the two calculators for it.
CalculateReward ==
    /\ rewardPc = "selected"
    /\ \E result \in ActionResults(rewardArgs.action) :
          /\ rewardResult' = result
          /\ basicReward' = rcCalculateReward(rewardArgs.example.TaskType,
                                rewardArgs.state, rewardArgs.action, result)
          /\ enhancedReward' = ercCalculateReward(rewardArgs.state, rewardArgs.action,
                                   result, rewardArgs.example)
    /\ rewardPc' = "calculated"
    /\ UNCHANGED rewardArgs
    /\ UNCHANGED otherThanReward

RewardInit ==
    /\ rewardPc = "idle"
    /\ rewardArgs = [state |-> createInitialState,
                     action |-> CHOOSE a \in getAvailableActions : a.Cost = 1,
                     example |-> CHOOSE e \in TrainingExamples : e.TaskType = "comprehensive"]
    /\ rewardResult = [Success |-> FALSE, Output |-> NilOutput, Duration |-> 0]
    /\ basicReward = NoReward
    /\ enhancedReward = NoReward

RewardNext ==
    \/ RewardSelect
    \/ CalculateReward

(***************************************************************************)
(* Properties of the cache                                                 *)
(***************************************************************************)
CacheSize == Cardinality(DOMAIN cache)

SetStep == sets' = sets + 1

GetReturns == hits' + misses' # hits + misses

MinimalScore(k) == \A j \in DOMAIN cache : ~calculateEvictionScoreLess(j, k)

\* C1: after every completed cache operation the number of stored entries
\* is at most max_size.
C1_CacheCapacity == CacheSize <= maxSize

\* C9 as stated: a Get that follows a Set of the same key by less than ttl,
\* with no Set of that key in between, is a hit returning the value set.
C9_RoundTripAnySets ==
    [][GetReturns /\ lastSet[ret'.Key].Set /\ now - lastSet[ret'.Key].At < ttl
          => ret'.Found /\ ret'.Value = lastSet[ret'.Key].Value]_vars

\* C9 amended: the same, provided no Set of another key has evicted the
\* entry in between.
C9_RoundTrip ==
    [][GetReturns /\ lastSet[ret'.Key].Set /\ ~lastSet[ret'.Key].Evicted
                  /\ now - lastSet[ret'.Key].At < ttl
          => ret'.Found /\ ret'.Value = lastSet[ret'.Key].Value]_vars

\* A hit on a key within ttl of its Set, after a later Set of another key
\* that left the entry in place.
C9_Witness ==
    /\ ret.Called /\ ret.Found
    /\ lastSet[ret.Key].Set /\ ~lastSet[ret.Key].Evicted
    /\ now - lastSet[ret.Key].At < ttl
    /\ ret.Value = lastSet[ret.Key].Value
    /\ \E k \in Keys \ {ret.Key} : lastSet[k].Set /\ k \in DOMAIN cache

AccessRecorded(k) ==
    /\ k \in DOMAIN accessPatterns'
    /\ k \notin DOMAIN accessPatterns \/ accessPatterns'[k] # accessPatterns[k]

\* C11: a Get whose entry was created more than ttl before the lookup is a
\* miss that leaves the entry and its metadata stored, and a Get goes on to
\* return an entry's value only if the entry is at most ttl old at the lookup.
C11_ExpiredIsMissAndStays ==
    [][/\ \A k \in Keys :
             (AccessRecorded(k) /\ k \in DOMAIN cache /\ now - cache[k].Timestamp > ttl)
                 => /\ ret' = [Called |-> TRUE, Key |-> k, Found |-> FALSE]
                    /\ misses' = misses + 1
                    /\ hits' = hits
                    /\ cache' = cache
                    /\ metadata' = metadata
                    /\ getPc' = getPc
       /\ \A c \in Callers :
             (getPc[c] = "idle" /\ getPc'[c] = "hit")
                 => now - getLocal'[c].entry.Timestamp <= ttl]_vars

\* A Get has just missed on an entry older than ttl, and the entry is still
\* stored.
C11_Witness ==
    /\ ret.Called
    /\ ~ret.Found
    /\ ret.Key \in DOMAIN cache
    /\ now - cache[ret.Key].Timestamp > ttl
    /\ misses > 0

\* C10: a Set on a cache holding max_size entries evicts exactly one entry,
\* one of minimal eviction score, before it stores the new one.
C10_EvictsOneMinimal ==
    [][SetStep /\ CacheSize = maxSize
          => /\ evictions' = evictions + 1
             /\ \E victim \in DOMAIN cache, key \in Keys :
                   /\ MinimalScore(victim)
                   /\ DOMAIN cache' = ((DOMAIN cache) \ {victim}) \cup {key}]_vars

\* The probability, in tenths, that the accesses recorded for the key k give:
\* those of the last hour over 10, at most 1, and 0.1 with none recorded.
ProbabilityFromHistory(k) ==
    IF k \notin DOMAIN accessPatterns \/ Len(accessPatterns[k]) = 0
    THEN 1
    ELSE LET recent == Cardinality({i \in 1..Len(accessPatterns[k]) :
                                       now - accessPatterns[k][i] < HourSeconds})
         IN IF recent > 10 THEN 10 ELSE recent

\* C39: the access probability in a stored entry's eviction score is the one
\* that the accesses recorded by the lookups of that entry's key give.
C39_ProbabilityFromOwnHistory ==
    \A k \in DOMAIN cache :
        predictAccessProbability(metadata[k].FunctionName, metadata[k].TextHash)
            = ProbabilityFromHistory(k)

\* The callers inside Get past the lookup: each holds ic.mutex in shared mode
\* and has the write of its entry back to ic.cache still to do.
WritingEntryMap == {c \in Callers : getPc[c] = "hit"}

\* C35: the cache's lock serializes the writes of its maps: at no time are
\* two operations both inside a section that writes the entry map, and Set
\* and CleanExpired, which evict, cannot run while a Get is in progress.
C35_WritesSerialized ==
    /\ Cardinality(WritingEntryMap) <= 1
    /\ icReaders # {} => ~ENABLED CacheSet /\ ~ENABLED CleanExpired


\* The zero time.Time of a field never assigned.
ZeroTime == -1

\* time.Since(t) >= d; since the zero time every duration has elapsed.
Elapsed(t, d) == t = ZeroTime \/ now - t >= d

\* NewDynamicAdaptationEngine and NewPerformanceMonitor, in seconds.
adaptationCooldown == 120
currentWindow == 300
maxHistory == 1000

\* initializeStrategies
Strategies ==
    {[Name |-> "high_latency", Priority |-> 1, CooldownPeriod |-> 180,
      Conditions |-> <<[Metric |-> "avg_latency", Operator |-> ">", Threshold |-> 500,
                       Duration |-> 30]>>,
      Actions |-> <<"cache_size", "parallelism">>],
     [Name |-> "high_memory", Priority |-> 2, CooldownPeriod |-> 120,
      Conditions |-> <<[Metric |-> "memory_usage", Operator |-> ">", Threshold |-> 80,
                       Duration |-> 20]>>,
      Actions |-> <<"cache_size", "aggressive_gc">>],
     [Name |-> "low_throughput", Priority |-> 3, CooldownPeriod |-> 240,
      Conditions |-> <<[Metric |-> "throughput", Operator |-> "<", Threshold |-> 10,
                       Duration |-> 45]>>,
      Actions |-> <<"parallelism", "batch_size">>],
     [Name |-> "high_errors", Priority |-> 1, CooldownPeriod |-> 300,
      Conditions |-> <<[Metric |-> "error_rate", Operator |-> ">", Threshold |-> 5,
                       Duration |-> 15]>>,
      Actions |-> <<"retry_count", "timeout">>]}

\* The measurement functions return fixed simulated values.
measureCurrentLatency == 150
measureCurrentThroughput == 50
measureCurrentMemoryUsage == 1073741824
measureCurrentCPUUsage == 90
measureCurrentErrorCount == 0
measureActiveActions == 5

GB == 1073741824

\* executeAdaptationAction: every action succeeds.
executeAdaptationAction(adaptationAction) == TRUE

\* dae.mutex: Lock() is granted when no goroutine holds the lock in either
\* mode; RLock() is granted when no goroutine holds it exclusively and none
\* waits in Lock().
LockFree == daeReaders = {} /\ daeWriter = None
CanRLock == daeWriter = None /\ daeWaiting = {}

\* monitoringLoop calls collectMetrics, which takes the exclusive lock.
monitoringLoopTick ==
    /\ monitorPc = "idle"
    /\ Len(performanceMonitor.metrics) < MaxSnapshots
    /\ LockFree
    /\ daeWriter' = "monitor"
    /\ monitorPc' = "collecting"
    /\ UNCHANGED <<now, performanceMonitor, resourceMonitor, adaptationHistory,
                   activeStrategy, strategyPerformance, lastAdaptation, daeReaders,
                   daeWaiting, monitorRecent, adaptPc, adaptChosen>>
    /\ UNCHANGED <<activations, activateRet, heldSince>>
    /\ UNCHANGED otherThanEngine

\* collectMetrics, holding the exclusive lock: append a snapshot, keep the
\* last maxHistory, release the lock.
collectMetrics ==
    /\ monitorPc = "collecting"
    /\ LET snapshot == [Timestamp |-> now,
                        Latency |-> measureCurrentLatency,
                        Throughput |-> measureCurrentThroughput,
                        MemoryUsage |-> measureCurrentMemoryUsage,
                        CPUUsage |-> measureCurrentCPUUsage,
                        ErrorCount |-> measureCurrentErrorCount,
                        ActiveActions |-> measureActiveActions]
           appended == Append(performanceMonitor.metrics, snapshot)
       IN performanceMonitor' =
              [performanceMonitor EXCEPT !.metrics =
                  IF Len(appended) > maxHistory THEN Tail(appended) ELSE appended]
    /\ daeWriter' = None
    /\ monitorPc' = "collected"
    /\ UNCHANGED <<now, resourceMonitor, adaptationHistory, activeStrategy,
                   strategyPerformance, lastAdaptation, daeReaders,
                   daeWaiting, monitorRecent, adaptPc, adaptChosen>>
    /\ UNCHANGED <<activations, activateRet, heldSince>>
    /\ UNCHANGED otherThanEngine

getCurrentMetricValue(metric) ==
    CASE metric = "avg_latency" -> performanceMonitor.avgLatency
      [] metric = "throughput" -> performanceMonitor.throughput
      [] metric = "error_rate" -> performanceMonitor.errorRate
      [] metric = "memory_usage" -> resourceMonitor.memoryUsage
      [] metric = "cpu_usage" -> resourceMonitor.cpuUsage
      [] OTHER -> 0

\* evaluateCondition: the operator applied to the current value; the
\* condition's Duration is not read.
evaluateCondition(condition) ==
    LET currentValue == getCurrentMetricValue(condition.Metric) IN
    CASE condition.Operator = ">" -> currentValue > condition.Threshold
      [] condition.Operator = "<" -> currentValue < condition.Threshold
      [] condition.Operator = ">=" -> currentValue >= condition.Threshold
      [] condition.Operator = "<=" -> currentValue <= condition.Threshold
      [] condition.Operator = "==" -> currentValue = condition.Threshold
      [] OTHER -> FALSE

\* For every condition of every strategy: the time since which it has held
\* without interruption up to the state after the step, if it holds then.
conditionsHeld ==
    [name \in {s.Name : s \in Strategies} |->
        LET s == CHOOSE t \in Strategies : t.Name = name
        IN [i \in 1..Len(s.Conditions) |->
               IF evaluateCondition(s.Conditions[i])'
               THEN [held |-> TRUE,
                     since |-> IF heldSince[name][i].held
                               THEN heldSince[name][i].since
                               ELSE now']
               ELSE [held |-> FALSE, since |-> 0]]]

RECURSIVE SumField(_, _)
SumField(seq, field) ==
    IF seq = <<>> THEN 0 ELSE Head(seq)[field] + SumField(Tail(seq), field)

recentMetrics ==
    SelectSeq(performanceMonitor.metrics,
              LAMBDA m : m.Timestamp > now - currentWindow)

\* updatePerformanceIndicators, lines 657-689, with no lock held: the
\* rolling averages over the snapshots of the current window.
updatePerformanceIndicators ==
    /\ monitorPc = "collected"
    /\ IF performanceMonitor.metrics = <<>> \/ recentMetrics = <<>>
       THEN /\ monitorPc' = "idle"
            /\ UNCHANGED <<performanceMonitor, monitorRecent>>
       ELSE LET totalOperations == Len(recentMetrics) IN
            /\ monitorRecent' = recentMetrics
            /\ performanceMonitor' =
                  [performanceMonitor EXCEPT
                      !.avgLatency = SumField(recentMetrics, "Latency") \div totalOperations,
                      !.throughput = SumField(recentMetrics, "Throughput") \div totalOperations,
                      !.errorRate =
                          (SumField(recentMetrics, "ErrorCount") * 100) \div totalOperations]
            /\ monitorPc' = "updating"
    /\ UNCHANGED <<now, resourceMonitor, adaptationHistory, activeStrategy,
                   strategyPerformance, lastAdaptation, daeReaders, daeWriter,
                   daeWaiting, adaptPc, adaptChosen>>
    /\ heldSince' = conditionsHeld
    /\ UNCHANGED <<activations, activateRet>>
    /\ UNCHANGED otherThanEngine

\* updatePerformanceIndicators, lines 691-696, still with no lock held: the
\* resource monitor takes the latest snapshot.
updateResourceMonitor ==
    /\ monitorPc = "updating"
    /\ LET latest == monitorRecent[Len(monitorRecent)]
       IN resourceMonitor' = [cpuUsage |-> latest.CPUUsage,
                              memoryUsage |-> latest.MemoryUsage \div GB]
    /\ monitorPc' = "idle"
    /\ monitorRecent' = <<>>
    /\ UNCHANGED <<now, performanceMonitor, adaptationHistory, activeStrategy,
                   strategyPerformance, lastAdaptation, daeReaders, daeWriter,
                   daeWaiting, adaptPc, adaptChosen>>
    /\ heldSince' = conditionsHeld
    /\ UNCHANGED <<activations, activateRet>>
    /\ UNCHANGED otherThanEngine

\* evaluateStrategy: not in its own cooldown, and every condition true.
evaluateStrategy(strategy) ==
    /\ strategy.Name \in DOMAIN strategyPerformance
          => Elapsed(strategyPerformance[strategy.Name].LastActivation,
                     strategy.CooldownPeriod)
    /\ \A i \in 1..Len(strategy.Conditions) : evaluateCondition(strategy.Conditions[i])

ZeroMetrics == [ActivationCount |-> 0, SuccessCount |-> 0, FailureCount |-> 0,
                LastActivation |-> ZeroTime]

StabilizeSeconds == 5

\* applyStrategy after its dae.mutex.Lock() is granted: record the event,
\* update the strategy's metrics, and on success make the strategy active
\* and wait for the metrics to stabilize; release the lock.
applyStrategy(strategy) ==
    LET success == \A i \in 1..Len(strategy.Actions) :
                       executeAdaptationAction(strategy.Actions[i])
        event == [Timestamp |-> now, Trigger |-> "automatic",
                  OldStrategy |-> activeStrategy,
                  NewStrategy |-> strategy.Name, Success |-> success]
        old == IF strategy.Name \in DOMAIN strategyPerformance
               THEN strategyPerformance[strategy.Name] ELSE ZeroMetrics
        metrics == [old EXCEPT !.ActivationCount = @ + 1,
                               !.LastActivation = now,
                               !.SuccessCount = IF success THEN @ + 1 ELSE @,
                               !.FailureCount = IF success THEN @ ELSE @ + 1]
    IN /\ adaptationHistory' = Append(adaptationHistory, event)
       /\ activeStrategy' = IF success THEN strategy.Name ELSE activeStrategy
       /\ strategyPerformance' =
             [n \in (DOMAIN strategyPerformance) \cup {strategy.Name} |->
                 IF n = strategy.Name THEN metrics ELSE strategyPerformance[n]]
       /\ now' = IF success THEN now + StabilizeSeconds ELSE now
       /\ lastAdaptation' = now'

\* adaptationLoop calls evaluateAdaptationNeeds, which takes the lock in
\* shared mode.
adaptationLoopTick ==
    /\ adaptPc = "idle"
    /\ CanRLock
    /\ daeReaders' = daeReaders \cup {"adapt"}
    /\ adaptPc' = "evaluating"
    /\ UNCHANGED <<now, performanceMonitor, resourceMonitor, adaptationHistory,
                   activeStrategy, strategyPerformance, lastAdaptation, daeWriter,
                   daeWaiting, monitorPc, monitorRecent, adaptChosen>>
    /\ UNCHANGED <<activations, activateRet, heldSince>>
    /\ UNCHANGED otherThanEngine

triggeredStrategies == {s \in Strategies : evaluateStrategy(s)}

\* The orders in which ranging over the map dae.strategies can append the
\* triggered strategies to the slice triggeredStrategies.
Orders(S) ==
    {order \in [1..Cardinality(S) -> S] :
        \A i, j \in 1..Cardinality(S) : order[i] = order[j] => i = j}

\* Line 722: strategy.Priority < bestStrategy.Priority.
higherPriorityInverted(strategy, best) == strategy.Priority > best.Priority

higherPriority(strategy, best) == strategy.Priority < best.Priority

\* Lines 720-725: start from the first triggered strategy and replace it by
\* each later one of strictly lower priority number.
RECURSIVE bestStrategy(_, _)
bestStrategy(best, rest) ==
    IF rest = <<>>
    THEN best
    ELSE bestStrategy(IF higherPriority(Head(rest), best) THEN Head(rest) ELSE best,
                      Tail(rest))

\* evaluateAdaptationNeeds, holding the shared lock until it returns.
\* Lines 703-727: return inside the global cooldown or when no strategy is
\* triggered; otherwise call applyStrategy on a triggered strategy of lowest
\* priority number (the strategies are ranged over in an arbitrary order).
\* applyStrategy starts with dae.mutex.Lock(); the call goes on once that is
\* granted, and then evaluateAdaptationNeeds returns.
evaluateAdaptationNeeds ==
    /\ adaptPc \in {"evaluating", "applying"}
    /\ IF adaptPc = "applying"
       THEN /\ LockFree
            /\ applyStrategy(adaptChosen)
            /\ daeWaiting' = daeWaiting \ {"adapt"}
            /\ daeReaders' = daeReaders \ {"adapt"}
            /\ adaptPc' = "idle"
            /\ adaptChosen' = None
       ELSE IF ~Elapsed(lastAdaptation, adaptationCooldown) \/ triggeredStrategies = {}
       THEN /\ daeReaders' = daeReaders \ {"adapt"}
            /\ adaptPc' = "idle"
            /\ UNCHANGED <<now, adaptationHistory, activeStrategy, strategyPerformance,
                           lastAdaptation, daeWaiting, adaptChosen>>
       ELSE /\ \E order \in Orders(triggeredStrategies) :
                  adaptChosen' = bestStrategy(Head(order), Tail(order))
            /\ daeWaiting' = daeWaiting \cup {"adapt"}
            /\ adaptPc' = "applying"
            /\ UNCHANGED <<now, adaptationHistory, activeStrategy, strategyPerformance,
                           lastAdaptation, daeReaders>>
    /\ UNCHANGED <<performanceMonitor, resourceMonitor, daeWriter, monitorPc,
                   monitorRecent>>
    /\ UNCHANGED <<activations, activateRet, heldSince>>
    /\ UNCHANGED otherThanEngine

\* The in-package callers (dynamic_adaptation_test.go) assign the rolling
\* indicators directly.
LatencyInputs == {400, 600}
ErrorRateInputs == {5, 10}

SetIndicators ==
    /\ \E lat \in LatencyInputs, err \in ErrorRateInputs :
          /\ <<lat, err>> # <<performanceMonitor.avgLatency, performanceMonitor.errorRate>>
          /\ performanceMonitor' = [performanceMonitor EXCEPT !.avgLatency = lat,
                                                               !.errorRate = err]
    /\ UNCHANGED <<now, resourceMonitor, adaptationHistory, activeStrategy,
                   strategyPerformance, lastAdaptation, daeReaders, daeWriter,
                   daeWaiting, monitorPc, monitorRecent, adaptPc, adaptChosen>>
    /\ heldSince' = conditionsHeld
    /\ UNCHANGED <<activations, activateRet>>
    /\ UNCHANGED otherThanEngine

\* The names ActivateStrategy is called with: registered ones and one that
\* is not.
ActivateNames == {"high_latency", "low_throughput", "no_such_strategy"}
Reasons == {"operator request"}

\* dae.strategies[strategyName]: the strategy and whether it exists; a name
\* that is not registered yields the zero strategy.
strategyExistsAlways(strategyName) == TRUE

strategyExists(strategyName) == \E s \in Strategies : s.Name = strategyName

strategyNamed(strategyName) ==
    IF \E s \in Strategies : s.Name = strategyName
    THEN CHOOSE s \in Strategies : s.Name = strategyName
    ELSE [Name |-> "", Priority |-> 0, CooldownPeriod |-> 0,
          Conditions |-> <<>>, Actions |-> <<>>]

manualTriggerAutomatic == "automatic"

manualTrigger == "manual"

\* ActivateStrategy, under the exclusive lock for the whole call.
ActivateStrategy(strategyName, reason) ==
    LET strategy == strategyNamed(strategyName)
        success == \A i \in 1..Len(strategy.Actions) :
                       executeAdaptationAction(strategy.Actions[i])
        event == [Timestamp |-> now, Trigger |-> manualTrigger,
                  OldStrategy |-> activeStrategy, NewStrategy |-> strategyName,
                  Reason |-> reason, Success |-> success]
    IN
    /\ activations < MaxActivations
    /\ LockFree
    /\ activations' = activations + 1
    /\ IF ~strategyExists(strategyName)
       THEN /\ activateRet' = [Called |-> TRUE, Name |-> strategyName, Result |-> FALSE]
            /\ UNCHANGED <<adaptationHistory, activeStrategy>>
       ELSE /\ adaptationHistory' = Append(adaptationHistory, event)
            /\ activeStrategy' = IF success THEN strategyName ELSE activeStrategy
            /\ activateRet' = [Called |-> TRUE, Name |-> strategyName, Result |-> success]
    /\ UNCHANGED <<now, performanceMonitor, resourceMonitor, strategyPerformance,
                   lastAdaptation, daeReaders, daeWriter, daeWaiting, monitorPc,
                   monitorRecent, adaptPc, adaptChosen, heldSince>>
    /\ UNCHANGED otherThanEngine

ManualActivation ==
    \E strategyName \in ActivateNames, reason \in Reasons :
        ActivateStrategy(strategyName, reason)

EngineTickSeconds == 60

EngineTick ==
    /\ now < MaxEngineTicks * EngineTickSeconds
    /\ now' = now + EngineTickSeconds
    /\ UNCHANGED engineVars
    /\ UNCHANGED <<activations, activateRet>>
    /\ UNCHANGED otherThanEngine

\* NewDynamicAdaptationEngine
EngineInit ==
    /\ performanceMonitor = [metrics |-> <<>>, avgLatency |-> 0, throughput |-> 0,
                             errorRate |-> 0]
    /\ resourceMonitor = [cpuUsage |-> 0, memoryUsage |-> 0]
    /\ adaptationHistory = <<>>
    /\ activeStrategy = "default"
    /\ strategyPerformance = <<>>
    /\ lastAdaptation = ZeroTime
    /\ daeReaders = {}
    /\ daeWriter = None
    /\ daeWaiting = {}
    /\ monitorPc = "idle"
    /\ monitorRecent = <<>>
    /\ adaptPc = "idle"
    /\ adaptChosen = None
    /\ heldSince = [name \in {s.Name : s \in Strategies} |->
                       <<[held |-> name = "low_throughput", since |-> 0]>>]
    /\ activations = 0
    /\ activateRet = [Called |-> FALSE]

EngineNext ==
    \/ monitoringLoopTick
    \/ collectMetrics
    \/ updatePerformanceIndicators
    \/ updateResourceMonitor
    \/ adaptationLoopTick
    \/ evaluateAdaptationNeeds
    \/ SetIndicators
    \/ EngineTick
    \/ ManualActivation

(***************************************************************************)
\* C25: intelligentEviction run on a full cache has one possible victim,
\* whatever order the maps are ranged over, also when scores are equal.
C25_EvictionDeterministic ==
    Cardinality(DOMAIN cache) >= maxSize => Cardinality(EvictionCandidates) <= 1

(***************************************************************************)
(* Properties of the adaptation engine                                     *)
(***************************************************************************)
\* The goroutines a call of dae.mutex.Lock() waits for.
Blockers == daeReaders \cup (IF daeWriter = None THEN {} ELSE {daeWriter})

\* C2: once the adaptation loop has found a triggered strategy, the
\* activation runs to completion (event appended, strategy metrics updated,
\* active_strategy set).  The activation is the step taken when
\* applyStrategy's Lock() is granted, so while the loop waits in applyStrategy
\* it is not itself one of the goroutines the grant waits for.
C2_ActivationCompletes == adaptPc = "applying" => "adapt" \notin Blockers

\* C6: the monitoring loop writes the engine's shared state only while it
\* holds the exclusive lock, the adaptation loop reads it only while it
\* holds the lock, and so no read overlaps a write.
C6_LockDiscipline ==
    /\ monitorPc \in {"collecting", "updating"} => daeWriter = "monitor"
    /\ adaptPc = "evaluating" => "adapt" \in daeReaders
    /\ ~(adaptPc = "evaluating" /\ monitorPc \in {"collecting", "updating"})

\* C15: the strategy evaluateAdaptationNeeds passes to applyStrategy has a
\* priority number no greater than that of any strategy triggered in the
\* same evaluation.
C15_LowestPriorityNumberWins ==
    [][adaptPc = "evaluating" /\ adaptPc' = "applying" =>
         /\ adaptChosen' \in triggeredStrategies
         /\ \A s \in triggeredStrategies : adaptChosen'.Priority <= s.Priority]_vars

\* Strategies of priorities 1 and 3 were triggered together and one of
\* priority 1 was passed to applyStrategy.
C15_Witness ==
    /\ adaptPc = "applying"
    /\ adaptChosen.Priority = 1
    /\ \E s \in triggeredStrategies : s.Priority = 3
    /\ Cardinality({s \in triggeredStrategies : s.Priority = 1}) = 2

ActivateStep == activations' = activations + 1

RegisteredNames == {s.Name : s \in Strategies}

\* C13: ActivateStrategy with a registered name returns true, appends exactly
\* one event with trigger "manual", the previously active strategy as old
\* strategy and the name as new strategy, and makes the name the active
\* strategy, whatever the conditions and cooldowns.
C13_ManualActivation ==
    [][ActivateStep /\ activateRet'.Name \in RegisteredNames =>
         /\ activateRet'.Result = TRUE
         /\ Len(adaptationHistory') = Len(adaptationHistory) + 1
         /\ SubSeq(adaptationHistory', 1, Len(adaptationHistory)) = adaptationHistory
         /\ LET e == adaptationHistory'[Len(adaptationHistory')]
            IN /\ e.Trigger = "manual"
               /\ e.OldStrategy = activeStrategy
               /\ e.NewStrategy = activateRet'.Name
         /\ activeStrategy' = activateRet'.Name]_vars

\* A second manual activation in the same second as the first, of a strategy
\* whose conditions do not hold.
C13_Witness ==
    /\ activateRet.Called
    /\ activateRet.Result = TRUE
    /\ activeStrategy = activateRet.Name
    /\ ~evaluateStrategy(strategyNamed(activateRet.Name))
    /\ Len(adaptationHistory) = 2
    /\ adaptationHistory[1].Timestamp = now
    /\ adaptationHistory[2].Trigger = "manual"
    /\ adaptationHistory[2].OldStrategy = adaptationHistory[1].NewStrategy
    /\ adaptationHistory[2].OldStrategy # adaptationHistory[2].NewStrategy

\* C14: ActivateStrategy with a name that is not registered returns false
\* and leaves the active strategy, the history and the strategy metrics as
\* they were.
C14_UnknownStrategy ==
    [][ActivateStep /\ activateRet'.Name \notin RegisteredNames =>
         /\ activateRet'.Result = FALSE
         /\ activeStrategy' = activeStrategy
         /\ adaptationHistory' = adaptationHistory
         /\ strategyPerformance' = strategyPerformance
         /\ lastAdaptation' = lastAdaptation]_vars

\* A call with an unregistered name has returned false on an engine that has
\* a manual activation in its history.
C14_Witness ==
    /\ activateRet.Called
    /\ activateRet.Name \notin RegisteredNames
    /\ activateRet.Result = FALSE
    /\ Len(adaptationHistory) = 1
    /\ activeStrategy = adaptationHistory[1].NewStrategy

\* C38: the strategy evaluateAdaptationNeeds finds triggered and passes on
\* has conditions that have each held without interruption for at least
\* the condition's Duration.
C38_ConditionsPersisted ==
    [][adaptPc = "evaluating" /\ adaptPc' = "applying" =>
         \A i \in 1..Len(adaptChosen'.Conditions) :
            /\ heldSince[adaptChosen'.Name][i].held
            /\ now - heldSince[adaptChosen'.Name][i].since
                  >= adaptChosen'.Conditions[i].Duration]_vars

\* C34: whenever dae.mutex is held, in either mode, a goroutine holding it
\* can take its next step towards releasing it.
C34_LockReleased ==
    (daeReaders # {} \/ daeWriter # None)
        => (ENABLED collectMetrics \/ ENABLED evaluateAdaptationNeeds)

(***************************************************************************)
(* Properties of the optimizer                                             *)
(***************************************************************************)
\* Pareto dominance for execution time, accuracy, memory and cost: a is no
\* slower, no less accurate, no larger and no dearer than b, and differs.
ParetoDominates(a, b) ==
    /\ a[1] <= b[1] /\ a[2] >= b[2] /\ a[3] <= b[3] /\ a[4] <= b[4]
    /\ a # b

Members(seq) == {seq[i] : i \in 1..Len(seq)}

\* C16: no solution of the first front, and so none of moo.paretoFront, is
\* dominated by a solution of the population that was sorted.
C16_FirstFrontNonDominated ==
    /\ optimizePc = "sorted" =>
          \A x \in Members(fronts[1]), y \in Members(population) :
              ~ParetoDominates(y.Objectives, x.Objectives)
    /\ optimizePc = "next" =>
          \A x \in Members(paretoFront), y \in Members(population) :
              ~ParetoDominates(y.Objectives, x.Objectives)

\* The Pareto front holds two solutions that do not dominate each other, and
\* the population holds a third that both dominate.
C16_Witness ==
    /\ optimizePc = "next"
    /\ Len(paretoFront) = 2
    /\ paretoFront[1].Objectives # paretoFront[2].Objectives
    /\ \E y \in Members(population) :
          \A x \in Members(paretoFront) : ParetoDominates(x.Objectives, y.Objectives)

RECURSIVE Flatten(_)
Flatten(seqs) == IF seqs = <<>> THEN <<>> ELSE Head(seqs) \o Flatten(Tail(seqs))

\* C17: when non-dominated sorting returns, the fronts hold every solution
\* of the population exactly once, and each solution's rank is the index of
\* the front that holds it.
C17_FrontsPartition ==
    optimizePc = "sorted" =>
        /\ Len(Flatten(fronts)) = Len(population)
        /\ \A x \in Members(population) :
              Occurrences(Flatten(fronts), x) = Occurrences(population, x)
        /\ \A k \in 1..Len(fronts) :
              \A x \in Members(fronts[k]) : x.Rank = k - 1

\* A sorted population of three fronts: each solution dominates the next.
C17_Witness ==
    /\ optimizePc = "sorted"
    /\ Len(fronts) = 3
    /\ \A k \in 1..3 : Len(fronts[k]) = 1
    /\ fronts[3][1].Rank = 2

SameSolution(a, b) == a.Actions = b.Actions /\ a.Parameters = b.Parameters

\* C18: the solutions createNextGeneration copies from the fronts are
\* members of the next generation, and only the remaining places hold
\* offspring.
C18_SurvivorsKept ==
    [][optimizePc = "next" /\ optimizePc' # "next" =>
          \A k \in 1..Len(newPopulation') :
              \E i \in 1..Len(population') :
                  SameSolution(population'[i], newPopulation'[k])]_vars

(***************************************************************************)
(* Properties of the agent                                                 *)
(***************************************************************************)
\* max(MinExploration, explorationRate * DecayRate^k)
ClosedForm(k) == RatMax(MinExploration, RatMul(explorationRate, RatPow(DecayRate, k)))

UpdateQValueStep == agentPc = "ready" /\ updates' = updates + 1

\* The constructor's arguments put the initial rate at or above the floor
\* and the decay rate between 0 and 1.
DecayingHyperparameters ==
    /\ ~RatLess(explorationRate, MinExploration)
    /\ ~RatLess(DecayRate, Rat(0, 1))
    /\ ~RatLess(Rat(1, 1), DecayRate)

C32_QTableKeys ==
    \A sk \in DOMAIN QTable :
        /\ sk \in observed
        /\ \A ak \in DOMAIN QTable[sk] :
              \E a \in getAvailableActions :
                  ak = <<a.FunctionName, Category(a.FunctionName)>>

\* After MaxUpdates updates of one state, both selected actions have a value
\* in its row, and a next state that was only read has no row.
C32_Witness ==
    /\ Cardinality(DOMAIN QTable) = 1
    /\ \A sk \in DOMAIN QTable : Cardinality(DOMAIN QTable[sk]) = 2
    /\ updates = MaxUpdates
    /\ \E n \in AgentStates : getStateKey(n) \notin DOMAIN QTable

(***************************************************************************)
(* Properties of the simulator                                             *)
(***************************************************************************)
\* C40: for every function of the catalogue with a base success rate below
\* 1, ExecuteAction can return a failure: some value of the jitter source
\* makes it do so.
C40_CanFail ==
    \A f \in SimulatedFunctions :
        (simPc = "sleeping" /\ simFunction = f.Name /\ f.BaseSuccessRate < 100)
            => ENABLED (ExecuteAction /\ ~simResult'.Success)

(***************************************************************************)
(* Properties of the log cleanup                                           *)
(***************************************************************************)
CleanupStep == cleanups' = cleanups + 1

\* C33: an AutoCleanup of a directory over the size limit or the file-count
\* limit leaves it within both limits, deletes only episode and events
\* files, none of them modified later than a retained one, and retains
\* half the file-count limit of them (all of them when there are fewer).
C33_CleanupWithinLimits ==
    [][(CleanupStep /\ needsCleanup(logDir, lastCleanup'.maxSizeMB, lastCleanup'.maxFiles))
          => /\ ~needsCleanup(logDir', lastCleanup'.maxSizeMB, lastCleanup'.maxFiles)
             /\ logDir' \subseteq logDir
             /\ logDir \ logDir' \subseteq allFiles(logDir)
             /\ \A d \in logDir \ logDir', r \in allFiles(logDir') :
                   d.modTime <= r.modTime
             /\ Cardinality(allFiles(logDir')) =
                   IF Cardinality(allFiles(logDir)) <= lastCleanup'.maxFiles \div 2
                   THEN Cardinality(allFiles(logDir))
                   ELSE lastCleanup'.maxFiles \div 2]_vars

SinksExited == started > 0 /\ \A i \in 1..started : sinkPc[i] = "exited"

Flushed == UNION {SeqSet(files[t]) : t \in DOMAIN files}

\* C4: once Stop has run and the sink has exited, every event LogEvent had
\* accepted before Stop is in the metrics store and in an events file.
C4_StopDrains ==
    (doneClosed /\ ~panicked /\ SinksExited)
        => \A e \in acceptedAtStop : e \in SeqSet(events) /\ e \in Flushed

\* C5: no query of the metrics store reads the event list while the sink is
\* appending to it.
C5_QueriesExcludeAppends ==
    ~(mdReaders # {} /\ \E i \in Sinks : sinkPc[i] = "appending")

TypeIndex(eventType) == CHOOSE k \in 1..Len(EventTypes) : EventTypes[k] = eventType

\* a was emitted before b in their episode.
EmittedBefore(a, b) ==
    \/ a.StepNumber < b.StepNumber
    \/ /\ a.StepNumber = b.StepNumber
       /\ TypeIndex(a.EventType) < TypeIndex(b.EventType)

\* C21: the events of an episode are in the metrics store in the order of
\* their emission: step numbers never decrease, and the events of a step
\* are in the order state_observation, action_selected, reward_calculated,
\* q_value_updated.
C21_EmissionOrder ==
    \A i, j \in 1..Len(events) :
        (i < j /\ events[i].EpisodeID = events[j].EpisodeID)
            => EmittedBefore(events[i], events[j])

\* The LogEvent call that has read il.active and has not yet sent.
Sending == IF producerPc = "sending" THEN 1 ELSE 0

\* C22: LogEvent's send is never blocked; an event it discards is the one
\* offered and never one that was in the buffer, so that every event that
\* entered the buffer is still in it or has gone to a sink; and the buffer
\* hands its events to the sinks oldest first.
C22_DropNewest ==
    /\ (producerPc = "sending" /\ ~panicked) => ENABLED LogEventSend
    /\ dropped \cap Accepted = {}
    /\ Cardinality(Accepted) + Cardinality(dropped) = offered - Sending
    /\ \A i, j \in 1..Len(EventStream) :
          i < j => EventStream[i].id < EventStream[j].id
    /\ \A i \in Sinks :
          sinkPc[i] \in {"received", "appending"}
              => \A k \in 1..Len(EventStream) : sinkEvent[i].id < EventStream[k].id

\* The third event was offered to a full buffer and discarded, and the two
\* buffered events have reached the metrics store in their order.
C22_Witness ==
    /\ dropped = {emitted(3)}
    /\ events = <<emitted(1), emitted(2)>>

\* C23: the events accepted and the drops counted add up to the LogEvent
\* calls made while the logger was active.
C23_DropsCounted ==
    Cardinality(Accepted) + DropsCounted = offered - Sending

\* C36: no sequence of Start and Stop calls panics, and while the logger is
\* active the sink of the latest Start is running: it has not returned.
C36_StartStopSafe ==
    /\ ~panicked
    /\ active => sinkPc[started] # "exited"

\* C37: a flush leaves every events file of an earlier flush in place with
\* its events, so an event once flushed stays in some events file.
C37_FlushKeepsFiles ==
    [][Flushed \subseteq Flushed']_vars

(***************************************************************************)
(* Properties of the episodes                                              *)
(***************************************************************************)
StepTaken == action' # NoAction /\ nextState' # nextState

\* C7: a state update adds one to the step count, takes the action's cost
\* from the budget and appends the action's name; the number of actions used
\* equals the step count, and the budget never increases within an episode.
C7_UpdateState ==
    [][StepTaken =>
         /\ nextState'.StepCount = state.StepCount + 1
         /\ nextState'.RemainingBudget = state.RemainingBudget - action'.Cost
         /\ nextState'.ActionsUsed = Append(state.ActionsUsed, action'.FunctionName)
         /\ Len(nextState'.ActionsUsed) = nextState'.StepCount
         /\ Len(state'.ActionsUsed) = state'.StepCount
         /\ nextState'.RemainingBudget <= state.RemainingBudget
         /\ state'.RemainingBudget <= state.RemainingBudget]_vars

\* An episode that took seven steps of cost 8 and ran out of budget.
C7_Witness ==
    /\ episodePc = "returned"
    /\ nextState.StepCount = 7
    /\ nextState.RemainingBudget = -6
    /\ Len(nextState.ActionsUsed) = 7
    /\ episode = 2

Terminal(s) ==
    s.RemainingBudget <= 0 \/ Len(s.ActionsUsed) >= Config.MaxStepsPerEpisode

\* C8: an episode has returned exactly when its latest state has no budget
\* left or has used Config.MaxStepsPerEpisode actions.
C8_TerminatesExactly ==
    /\ episodePc = "returned" => Terminal(nextState)
    /\ episodePc = "running" => ~Terminal(state)

\* C20: updateState leaves the state passed in as it was: the contents of
\* its CurrentResults map, which is the one map every state of the episode
\* holds, and the elements of its ActionsUsed list.
C20_UpdateStatePure ==
    [][StepTaken =>
          /\ CurrentResults' = CurrentResults
          /\ SubSeq(nextState'.ActionsUsed, 1, Len(state.ActionsUsed)) = state.ActionsUsed]_vars

\* C24: once cancellation has been requested the runner starts no further
\* episode; the events of the interrupted episode are each emitted whole or
\* not at all.
C24_CancellationHonored ==
    [][cancelRequested => episode' = episode]_vars

(***************************************************************************)
(* Properties of the analyzer                                              *)
(***************************************************************************)
\* C26: the reports generated over one event log and episode store are
\* equal.
C26_AnalyzerIdempotent ==
    \A i, j \in 1..Len(reports) : reports[i] = reports[j]

(***************************************************************************)
(* Properties of the parameter optimizer                                   *)
(***************************************************************************)
GenerationRecorded ==
    poPc = "running" /\ poPc' = "running" /\ poGeneration' = poGeneration + 1

\* C27: one iteration of OptimizeParameters appends one record to the
\* history of the function name and leaves the earlier records as they
\* were; the new record holds the generation's number, its population, its
\* fitness values, an individual of maximal fitness and that fitness.
C27_HistoryRecords ==
    [][GenerationRecorded =>
         LET old == HistoryOf(poFunctionName)
             new == parameterHistory'[poFunctionName]
             fitness == evaluateFitness(poPopulation)
             last == new[Len(new)]
         IN /\ Len(new) = Len(old) + 1
            /\ SubSeq(new, 1, Len(old)) = old
            /\ last.Generation = poGeneration
            /\ last.Population = poPopulation
            /\ last.Fitness = fitness
            /\ \E i \in 1..Len(poPopulation) : last.BestParams = poPopulation[i]
            /\ last.BestFitness = fitnessFunc(last.BestParams)
            /\ \A i \in 1..Len(fitness) : ~RatLess(last.BestFitness, fitness[i])]_vars

\* C28: OptimizeParameters returns an individual of the final population
\* whose fitness no individual of it exceeds, and that individual is what
\* bestParameters holds for the function name.
C28_ReturnsBest ==
    poPc = "returned" =>
        /\ \E i \in 1..Len(poPopulation) : poResult = poPopulation[i]
        /\ \A i \in 1..Len(poPopulation) :
              ~RatLess(fitnessFunc(poResult), fitnessFunc(poPopulation[i]))
        /\ poFunctionName \in DOMAIN bestParameters
        /\ bestParameters[poFunctionName] = poResult

\* A call has returned an individual that is not the first of a final
\* population of unequal fitness.
C28_Witness ==
    /\ poPc = "returned"
    /\ poResult # poPopulation[1]
    /\ RatLess(fitnessFunc(poPopulation[1]), fitnessFunc(poResult))
    /\ poCalls = 2

\* C29: an evolution step puts eliteCount individuals of the old population
\* first in the new one, unchanged, and no individual left out is fitter
\* than one of them.
C29_Elitism ==
    [][GenerationRecorded =>
         LET N == Len(poPopulation)
             fitness == evaluateFitness(poPopulation)
         IN \E elite \in SUBSET (1..N) :
               /\ Cardinality(elite) = poPopulationSize \div 10
               /\ \A k \in elite, m \in (1..N) \ elite :
                     ~RatLess(fitness[k], fitness[m])
               /\ \E place \in [1..Cardinality(elite) -> elite] :
                     /\ \A i, j \in DOMAIN place : i # j => place[i] # place[j]
                     /\ \A i \in DOMAIN place :
                           poPopulation'[i] = poPopulation[place[i]]]_vars

\* After the first evolution step of a call: the elite individual is the
\* recorded best of a generation of unequal fitness, where it was not the
\* first.
C29_Witness ==
    /\ poPc = "running"
    /\ poCalls = 1
    /\ poGeneration = 1
    /\ poPopulationSize \div 10 = 1
    /\ LET record == parameterHistory[poFunctionName][1]
       IN /\ poPopulation[1] = record.BestParams
          /\ record.Population[1] # record.BestParams
          /\ \E i \in 1..Len(record.Fitness) :
                RatLess(record.Fitness[i], record.BestFitness)

InRange(paramRange, value) ==
    CASE paramRange.Type = "int" -> value \in paramRange.Min..paramRange.Max
      [] paramRange.Type = "float" ->
           ~RatLess(value, paramRange.Min) /\ ~RatLess(paramRange.Max, value)
      [] paramRange.Type = "bool" -> value \in BOOLEAN
      [] paramRange.Type = "enum" ->
           \E k \in 1..Len(paramRange.Options) : paramRange.Options[k] = value

WithinRanges(individual) ==
    /\ DOMAIN individual = DOMAIN ranges
    /\ \A paramName \in DOMAIN ranges :
          InRange(ranges[paramName], individual[paramName])

\* C30: every individual of the population of every generation, and the
\* individual returned, has exactly the parameters of ranges, each with a
\* value in its range.
C30_WithinRanges ==
    /\ \A i \in 1..Len(poPopulation) : WithinRanges(poPopulation[i])
    /\ poPc = "returned" => WithinRanges(poResult)

\* A generation made by crossover and mutation that holds the smallest and
\* the largest value of param1 and two values of param4.
C30_Witness ==
    /\ poPc = "running"
    /\ poGeneration = 1
    /\ \E i, j \in 1..Len(poPopulation) :
          /\ poPopulation[i]["param1"] = ranges["param1"].Min
          /\ poPopulation[j]["param1"] = ranges["param1"].Max
          /\ poPopulation[i]["param4"] # poPopulation[j]["param4"]

Init ==
    /\ now = 0
    /\ CacheInit
    /\ EngineInit
    /\ LoggerInit
    /\ EpisodeInit
    /\ OptimizerInit
    /\ AgentInit
    /\ AnalyzerInit
    /\ ParamInit
    /\ SimulatorInit
    /\ CleanupInit
    /\ RewardInit

CacheNext ==
    \/ CacheGet
    \/ CacheGetHit
    \/ CacheSet
    \/ CleanExpired
    \/ CacheTick

CacheSpec == Init /\ [][CacheNext]_vars

EngineSpec == Init /\ [][EngineNext]_vars

LoggerSpec == Init /\ [][LoggerNext]_vars

EpisodeSpec == Init /\ [][EpisodeNext]_vars

OptimizerSpec == Init /\ [][OptimizerNext]_vars

AgentSpec == Init /\ [][AgentNext]_vars

AnalyzerSpec == Init /\ [][AnalyzerNext]_vars

ParamSpec == Init /\ [][ParamNext]_vars

SimulatorSpec == Init /\ [][SimulatorNext]_vars

CleanupSpec == Init /\ [][CleanupNext]_vars

RewardSpec == Init /\ [][RewardNext]_vars

====
